---- MODULE Spec2Model ----
(***************************************************************************)
(* Request security layer of gin-pkg: timestamp window, single-use nonce,  *)
(* HMAC request signature, and the SecurityMiddleware that composes them.  *)
(*                                                                         *)
(* Strings are sequences of byte values (ASCII codes), so that parsing,    *)
(* byte-wise sorting and joining are computed as the Go code computes      *)
(* them.  Time is counted in clock ticks; one millisecond is TicksPerMs    *)
(* ticks (time.Duration is finer than the millisecond timestamps).         *)
(***************************************************************************)
EXTENDS Integers, Sequences, FiniteSets, TLC

VARIABLES
    now,          \* time.Now(), in ticks
    tsq,          \* last ValidateTimestamp call: arguments, clock and error
    sig,          \* signature calls: parameter map, secrets, signature, error
    nonceStore,   \* Redis keys "nonce:<nonce>": presence and expiry time
    uuidDrawn,    \* the uuid values uuid.New() has returned so far
    issuedAt,     \* per nonce: when GenerateNonce returned it (history)
    vn,           \* last ValidateNonce call of a sequential caller (history)
    mw,           \* per request being handled: the gin.Context and handler locals
    blacklist,    \* Redis keys "blacklist:token:<id>": presence and expiry time
    tokens,       \* the tokens GenerateTokenPair has returned, with the identity given
    tk,           \* last ValidateToken call: arguments, clock, error and claims
    rt,           \* the RefreshTokens call in progress, then its result
    tokHist,      \* tokens rotated so far, tokens rejected as expired or revoked (history)
    gn,           \* per goroutine: its NonceRedisService.GetNonce call
    rot           \* per goroutine: its RefreshTokens call, when calls run concurrently

tokVars == <<blacklist, tokens, tk, rt, tokHist>>
callVars == <<gn, rot>>
vars == <<now, tsq, sig, nonceStore, uuidDrawn, issuedAt, vn, mw, tokVars, callVars>>
nonceVars == <<nonceStore, uuidDrawn, issuedAt, vn, mw>>

----------------------------------------------------------------------------
(* Bounds and scaled program constants *)

TicksPerMs == 2          \* ticks per millisecond (time.UnixMilli)
TimestampWindow == 2     \* config.Security.TimestampValidityWindow, in ticks
StartNow == 11           \* clock value of the initial state
TsMaxNow == 14           \* last clock value explored for timestamp calls
MaxWindow == 4           \* largest validityWindow argument explored, in ticks
MaxTsMs == 9             \* largest well-formed timestamp explored, in ms
MaxParams == 3           \* largest parameter map explored
NonceValidityTime == 4   \* config.Security.NonceValidityDuration, in ticks
SvcMaxNow == 16          \* last clock value explored for sequential nonce calls
MaxNow == 13             \* last clock value explored for concurrent requests
MaxNonces == 2           \* number of distinct uuid values available
MaxCalls == 3            \* ValidateNonce calls recorded per nonce
MaxReq == 2              \* requests handled at the same time
MaxCallers == 2          \* goroutines calling one service at the same time
NrsMaxNow == 16          \* last clock value explored for NonceRedisService calls
RotMaxNow == 13          \* last clock value explored for concurrent rotations
MaxRotIds == 6           \* uuid values available to one login and two rotations
ChainMaxNow == 14        \* last clock value explored for chained middleware
ChainMaxLogins == 1      \* logins explored in front of chained middleware

\* values of the call records before any call
VnIdle == [nonce |-> <<>>, err |-> "none", ioGet |-> "ok", ioDel |-> "ok",
           live |-> FALSE, index |-> 0, oksBefore |-> 0]
TsIdle == [ts |-> <<>>, window |-> 0, at |-> 0, err |-> "none", via |-> "none"]

SigIdle == [params |-> <<>>, secret |-> <<>>, provided |-> <<>>,
            signer |-> <<>>, err |-> "none", after |-> "none"]

----------------------------------------------------------------------------
(* Strings *)

\* strconv.FormatInt(n, 10) for n >= 0, as the test client renders timestamps
RECURSIVE FormatInt(_)
FormatInt(n) ==
    IF n < 10 THEN <<48 + n>>
    ELSE Append(FormatInt(n \div 10), 48 + (n % 10))

RECURSIVE DigitsValue(_, _)
DigitsValue(s, acc) ==
    IF s = <<>> THEN acc
    ELSE DigitsValue(Tail(s), acc * 10 + (Head(s) - 48))

\* strconv.ParseInt(s, 10, 64): optional sign, then decimal digits only
ParseInt(s) ==
    LET signed == s /= <<>> /\ Head(s) \in {43, 45}
        neg    == s /= <<>> /\ Head(s) = 45
        digits == IF signed THEN Tail(s) ELSE s
    IN  IF digits = <<>> \/ \E i \in 1..Len(digits) : digits[i] < 48 \/ digits[i] > 57
        THEN [err |-> TRUE, val |-> 0]
        ELSE [err |-> FALSE,
              val |-> IF neg THEN 0 - DigitsValue(digits, 0)
                      ELSE DigitsValue(digits, 0)]

\* time.UnixMilli(ts), as a clock value
UnixMilli(ms) == ms * TicksPerMs

----------------------------------------------------------------------------
(* DefaultSecurityService.ValidateTimestamp *)

ErrNil == "nil"
ErrTsFormat == "invalid timestamp format"
ErrTsWindow == "timestamp is outside validity window"

\* variant: the window bounds are exclusive
ValidateTimestampExclusive(timestamp, validityWindow, nowT) ==
    LET p == ParseInt(timestamp)
    IN  IF p.err THEN ErrTsFormat
        ELSE LET diff == nowT - UnixMilli(p.val)
             IN  IF diff <= 0 - validityWindow \/ diff >= validityWindow
                 THEN ErrTsWindow
                 ELSE ErrNil

ValidateTimestamp(timestamp, validityWindow, nowT) ==
    LET p == ParseInt(timestamp)
    IN  IF p.err THEN ErrTsFormat
        ELSE LET requestTime == UnixMilli(p.val)
                 diff == nowT - requestTime
             IN  IF diff < 0 - validityWindow \/ diff > validityWindow
                 THEN ErrTsWindow
                 ELSE ErrNil

\* timestamp strings offered to the validator
TsStrings ==
    {FormatInt(n) : n \in 0..MaxTsMs}
        \cup {<<>>, <<120>>, <<53, 120>>, <<45, 49>>, <<43, 53>>, <<45>>}

\* a direct call of SecurityService.ValidateTimestamp(t, w)
CallValidateTimestamp(t, w) ==
    /\ tsq' = [ts |-> t, window |-> w, at |-> now,
               err |-> ValidateTimestamp(t, w, now), via |-> "security"]
    /\ UNCHANGED <<now, sig, nonceVars, tokVars, callVars>>

\* DefaultAuthService.ValidateTimestamp(t): delegates with a window of 0
AuthValidateTimestamp(t) ==
    /\ tsq' = [ts |-> t, window |-> 0, at |-> now,
               err |-> ValidateTimestamp(t, 0, now), via |-> "auth"]
    /\ UNCHANGED <<now, sig, nonceVars, tokVars, callVars>>

TsTick ==
    /\ now < TsMaxNow
    /\ now' = now + 1
    /\ UNCHANGED <<tsq, sig, nonceVars, tokVars, callVars>>

----------------------------------------------------------------------------
(* Signature: canonical parameter string and HMAC *)

StrSign == <<115, 105, 103, 110>>                                \* "sign"
StrTimestamp == <<116, 105, 109, 101, 115, 116, 97, 109, 112>>   \* "timestamp"
StrNonce == <<110, 111, 110, 99, 101>>                           \* "nonce"
ErrSignature == "invalid signature"

\* byte-wise string order, as sort.Strings compares
RECURSIVE StrLess(_, _)
StrLess(a, b) ==
    IF b = <<>> THEN FALSE
    ELSE IF a = <<>> THEN TRUE
    ELSE IF Head(a) /= Head(b) THEN Head(a) < Head(b)
    ELSE StrLess(Tail(a), Tail(b))

RECURSIVE InsertSorted(_, _)
InsertSorted(sorted, k) ==
    IF sorted = <<>> THEN <<k>>
    ELSE IF StrLess(k, Head(sorted)) THEN <<k>> \o sorted
    ELSE <<Head(sorted)>> \o InsertSorted(Tail(sorted), k)

\* sort.Strings(keys)
RECURSIVE SortStrings(_)
SortStrings(keys) ==
    IF keys = <<>> THEN <<>>
    ELSE InsertSorted(SortStrings(Tail(keys)), Head(keys))

\* strings.Join(parts, sep)
RECURSIVE Join(_, _)
Join(parts, sep) ==
    IF parts = <<>> THEN <<>>
    ELSE IF Len(parts) = 1 THEN Head(parts)
    ELSE Head(parts) \o sep \o Join(Tail(parts), sep)

\* hex(HMAC-SHA256(secret, msg)): a collision-free keyed digest; byte 0
\* occurs in no secret or message and separates the two
HmacSha256Hex(secret, msg) == <<0>> \o secret \o <<0>> \o msg

\* the orders in which `for k := range params` may visit the keys
RangeOrders(params) ==
    LET K == DOMAIN params
    IN  {o \in [1..Cardinality(K) -> K] : \A k \in K : \E i \in DOMAIN o : o[i] = k}

\* GenerateSignature(params, secret); order is the map iteration order
GenerateSignature(params, order, secret) ==
    LET keys == SortStrings(SelectSeq(order, LAMBDA k : k /= StrSign))
        paramPairs == [i \in 1..Len(keys) |-> keys[i] \o <<61>> \o params[keys[i]]]
        paramString == Join(paramPairs, <<38>>)
    IN  HmacSha256Hex(secret, paramString)

\* variant: the collected keys are not sorted
ValidateSignatureUnsorted(params, order, signature, signatureSecret) ==
    LET keys == SelectSeq(order, LAMBDA k : k /= StrSign)
        paramPairs == [i \in 1..Len(keys) |-> keys[i] \o <<61>> \o params[keys[i]]]
        paramString == Join(paramPairs, <<38>>)
        expectedSign == HmacSha256Hex(signatureSecret, paramString)
    IN  IF expectedSign /= signature THEN ErrSignature ELSE ErrNil

\* DefaultSecurityService.ValidateSignature(params, signature)
ValidateSignature(params, order, signature, signatureSecret) ==
    LET keys == SortStrings(SelectSeq(order, LAMBDA k : k /= StrSign))
        paramPairs == [i \in 1..Len(keys) |-> keys[i] \o <<61>> \o params[keys[i]]]
        paramString == Join(paramPairs, <<38>>)
        expectedSign == HmacSha256Hex(signatureSecret, paramString)
    IN  IF expectedSign /= signature THEN ErrSignature ELSE ErrNil

\* calculateSignature(params, secret) of the test client: the keys other than
\* "sign" in ascending order, key=value joined by &, then HMAC-SHA256 in hex
SignedKeys(m) == DOMAIN m \ {StrSign}

RECURSIVE CanonicalString(_, _)
CanonicalString(m, K) ==
    IF K = {} THEN <<>>
    ELSE LET k == CHOOSE x \in K : \A y \in K \ {x} : StrLess(x, y)
         IN  k \o <<61>> \o m[k] \o
             (IF K = {k} THEN <<>> ELSE <<38>> \o CanonicalString(m, K \ {k}))

calculateSignature(params, secret) ==
    HmacSha256Hex(secret, CanonicalString(params, SignedKeys(params)))

\* inputs of the signature calls
SigKeys == {<<97>>, <<97, 98>>, <<66>>, StrSign}            \* "a" "ab" "B" "sign"
SigValues == {<<49>>, <<50>>, <<49, 38, 97, 98, 61, 50>>}   \* "1" "2" "1&ab=2"
Secrets == {<<107, 49>>, <<107, 50>>}                       \* "k1" "k2"
BadSignature == <<120, 120>>                                \* "xx"
ParamMaps ==
    UNION {[K -> SigValues] : K \in {S \in SUBSET SigKeys : Cardinality(S) <= MaxParams}}

\* the client signs the current parameters (calculateSignature / GenerateSignature)
SigSign(order, clientSecret) ==
    /\ sig' = [sig EXCEPT !.provided = GenerateSignature(sig.params, order, clientSecret),
                          !.signer = clientSecret, !.err = "none", !.after = "signed"]
    /\ UNCHANGED <<now, tsq, nonceVars, tokVars, callVars>>

\* the client sends no signature or an arbitrary one
SigForge(s) ==
    /\ sig' = [sig EXCEPT !.provided = s, !.signer = <<>>, !.err = "none",
                          !.after = "forged"]
    /\ UNCHANGED <<now, tsq, nonceVars, tokVars, callVars>>

\* the server validates the provided signature
SigValidate(order) ==
    /\ sig.after \in {"signed", "forged"}
    /\ sig' = [sig EXCEPT !.err = ValidateSignature(sig.params, order, sig.provided, sig.secret),
                          !.after = "validated"]
    /\ UNCHANGED <<now, tsq, nonceVars, tokVars, callVars>>

\* after a successful validation one parameter value changes and the same
\* signature is validated again
SigChangeValue(k, v, order) ==
    /\ sig.after = "validated" /\ sig.err = ErrNil
    /\ k \in DOMAIN sig.params /\ k /= StrSign /\ v /= sig.params[k]
    /\ LET changed == [sig.params EXCEPT ![k] = v]
       IN  sig' = [sig EXCEPT !.params = changed,
                              !.err = ValidateSignature(changed, order, sig.provided, sig.secret),
                              !.after = "value-changed"]
    /\ UNCHANGED <<now, tsq, nonceVars, tokVars, callVars>>

\* after a successful validation the secret changes and the same signature is
\* validated again
SigChangeSecret(s, order) ==
    /\ sig.after = "validated" /\ sig.err = ErrNil
    /\ s /= sig.secret
    /\ sig' = [sig EXCEPT !.secret = s,
                          !.err = ValidateSignature(sig.params, order, sig.provided, s),
                          !.after = "secret-changed"]
    /\ UNCHANGED <<now, tsq, nonceVars, tokVars, callVars>>

\* after a successful validation the same signature is validated again with
\* another parameter map, one that differs in a signed key or value
SigChangeParams(m, order) ==
    /\ sig.after = "validated" /\ sig.err = ErrNil
    /\ [k \in SignedKeys(m) |-> m[k]] /= [k \in SignedKeys(sig.params) |-> sig.params[k]]
    /\ order \in RangeOrders(m)
    /\ sig' = [sig EXCEPT !.params = m,
                          !.err = ValidateSignature(m, order, sig.provided, sig.secret),
                          !.after = "params-changed"]
    /\ UNCHANGED <<now, tsq, nonceVars, tokVars, callVars>>

----------------------------------------------------------------------------
(* Nonce store (RedisClient) and DefaultSecurityService nonce operations *)

ErrNonce == "invalid or expired nonce"
ErrNonceCheck == "failed to check nonce"
ErrNonceInvalidate == "failed to invalidate nonce"
ErrNonceStore == "failed to store nonce"

\* the values uuid.New().String() can return: "n1", "n2", ...
NoncePool == {<<110, 48 + i>> : i \in 1..MaxNonces}

\* outcome of one round trip to Redis; a failed command is not applied
IoOutcomes == {"ok", "error"}

Absent == [present |-> FALSE, expireAt |-> 0]

\* Redis drops a key when its expiry time is reached
ExpireKeys(store, t) ==
    [k \in DOMAIN store |->
        IF store[k].present /\ store[k].expireAt <= t THEN Absent ELSE store[k]]

\* variant: the key outlives the expiration it was given by one time unit
StoreNonceLate(store, nonce, expiration, t) ==
    [store EXCEPT ![nonce] = [present |-> TRUE, expireAt |-> t + expiration + 1]]

\* RedisClient.StoreNonce: SET nonce:<nonce> 1 EX expiration
StoreNonce(store, nonce, expiration, t) ==
    [store EXCEPT ![nonce] = [present |-> TRUE, expireAt |-> t + expiration]]

\* variant: every nonce is reported as present
GetNonceAlways(store, nonce, t) == TRUE

\* RedisClient.GetNonce: EXISTS nonce:<nonce>
GetNonce(store, nonce, t) ==
    nonce \in DOMAIN store /\ store[nonce].present /\ t < store[nonce].expireAt

\* variant: the key is left in place
InvalidateNonceKeep(store, nonce) == store

\* RedisClient.InvalidateNonce: DEL nonce:<nonce>
InvalidateNonce(store, nonce) ==
    [k \in DOMAIN store |-> IF k = nonce THEN Absent ELSE store[k]]

\* DefaultSecurityService.GenerateNonce; uuid is the value uuid.New() returns
GenerateNonce(store, uuid, io, t) ==
    IF io = "error"
    THEN [store |-> store, nonce |-> <<>>, err |-> ErrNonceStore]
    ELSE [store |-> StoreNonce(store, uuid, NonceValidityTime, t),
          nonce |-> uuid, err |-> ErrNil]

\* DefaultSecurityService.ValidateNonce, run without interleaving
ValidateNonce(store, nonce, ioGet, ioDel, t) ==
    IF ioGet = "error" THEN [store |-> store, err |-> ErrNonceCheck]
    ELSE IF ~GetNonce(store, nonce, t) THEN [store |-> store, err |-> ErrNonce]
    ELSE IF ioDel = "error" THEN [store |-> store, err |-> ErrNonceInvalidate]
    ELSE [store |-> InvalidateNonce(store, nonce), err |-> ErrNil]

\* issuedAt[n].at of a nonce that GenerateNonce has not returned yet
NeverIssued == 0 - 1

\* a caller obtains a nonce
SvcGenerateNonce(uuid, io) ==
    /\ uuid \notin uuidDrawn
    /\ LET g == GenerateNonce(nonceStore, uuid, io, now)
       IN  /\ nonceStore' = g.store
           /\ uuidDrawn' = uuidDrawn \cup {uuid}
           /\ issuedAt' = IF g.err = ErrNil
                          THEN [issuedAt EXCEPT ![uuid] = [at |-> now, calls |-> 0, oks |-> 0]]
                          ELSE issuedAt
    /\ UNCHANGED <<now, tsq, sig, vn, mw, tokVars, callVars>>

\* a caller validates a nonce; calls are made one after the other
SvcValidateNonce(nonce, ioGet, ioDel) ==
    /\ issuedAt[nonce].calls < MaxCalls
    /\ LET v == ValidateNonce(nonceStore, nonce, ioGet, ioDel, now)
           issued == issuedAt[nonce].at /= NeverIssued
       IN  /\ nonceStore' = v.store
           /\ vn' = [nonce |-> nonce, err |-> v.err, ioGet |-> ioGet, ioDel |-> ioDel,
                     live |-> issued /\ now < issuedAt[nonce].at + NonceValidityTime,
                     index |-> IF issued THEN issuedAt[nonce].calls + 1 ELSE 0,
                     oksBefore |-> issuedAt[nonce].oks]
           /\ issuedAt' = [issuedAt EXCEPT
                  ![nonce].calls = IF issued THEN @ + 1 ELSE @,
                  ![nonce].oks = IF v.err = ErrNil THEN @ + 1 ELSE @]
    /\ UNCHANGED <<now, tsq, sig, uuidDrawn, mw, tokVars, callVars>>

----------------------------------------------------------------------------
(* NonceRedisService: the nonce store with a check-and-delete GetNonce *)

ErrTransaction == "transaction failed"

\* goroutines calling a service at the same time
Callers == 1..MaxCallers

GnIdle == [pc |-> "idle", nonce |-> <<>>, exists |-> FALSE, ok |-> FALSE, err |-> "none"]

\* NonceRedisService.StoreNonce(nonce, expiration), for a nonce not stored before
NrsStoreNonce(nonce, io) ==
    /\ nonce \notin uuidDrawn
    /\ uuidDrawn' = uuidDrawn \cup {nonce}
    /\ nonceStore' = IF io = "error" THEN nonceStore
                     ELSE StoreNonce(nonceStore, nonce, NonceValidityTime, now)
    /\ UNCHANGED <<now, tsq, sig, issuedAt, vn, mw, tokVars, callVars>>

\* NonceRedisService.GetNonce up to its first command inside the Watch
\* callback: tx.Exists(key); the callback's commands are sent one by one,
\* so other callers' commands can come between them
GnExists(g, nonce, io) ==
    /\ gn[g].pc \in {"idle", "done"}
    /\ LET call == [GnIdle EXCEPT !.nonce = nonce]
           exists == GetNonce(nonceStore, nonce, now)
       IN  gn' = [gn EXCEPT ![g] =
              IF io = "error"
              THEN [call EXCEPT !.pc = "done", !.ok = FALSE, !.err = ErrTransaction]
              ELSE IF exists
              THEN [call EXCEPT !.pc = "del", !.exists = TRUE]
              ELSE [call EXCEPT !.pc = "done", !.ok = TRUE, !.err = ErrNil]]
    /\ UNCHANGED <<now, tsq, sig, nonceStore, uuidDrawn, issuedAt, vn, mw, tokVars, rot>>

\* NonceRedisService.GetNonce, the rest: tx.Del(key), then return true, nil
GnDel(g, io) ==
    /\ gn[g].pc = "del"
    /\ IF io = "error"
       THEN /\ gn' = [gn EXCEPT ![g] = [@ EXCEPT !.pc = "done", !.ok = FALSE,
                                                 !.err = ErrTransaction]]
            /\ UNCHANGED nonceStore
       ELSE /\ nonceStore' = InvalidateNonce(nonceStore, gn[g].nonce)
            /\ gn' = [gn EXCEPT ![g] = [@ EXCEPT !.pc = "done", !.ok = TRUE, !.err = ErrNil]]
    /\ UNCHANGED <<now, tsq, sig, uuidDrawn, issuedAt, vn, mw, tokVars, rot>>

\* time passes while GetNonce calls run
NrsTick ==
    /\ now < NrsMaxNow
    /\ now' = now + 1
    /\ nonceStore' = ExpireKeys(nonceStore, now + 1)
    /\ UNCHANGED <<tsq, sig, uuidDrawn, issuedAt, vn, mw, tokVars, callVars>>

----------------------------------------------------------------------------
(* JWTService: token pairs, validation, rotation, and the blacklist store *)

\* Token lifetimes are scaled down like the other durations; NewNumericDate
\* truncates to jwt.TimePrecision (one second, here TimePrecision ticks).
TimePrecision == 2
AccessTokenDuration == 2
RefreshTokenDuration == 6
DefaultAccessTokenExp == 86400
TokMaxNow == 16          \* last clock value explored for token calls
LoginMaxNow == 12        \* last clock value at which a login is explored
MaxTokenIds == 4         \* number of distinct token ids uuid.New() can return

AccessToken == "access"
RefreshToken == "refresh"
AccessSecret == <<97, 115>>              \* config.Auth.AccessTokenSecret: "as"
RefreshSecret == <<114, 115>>            \* config.Auth.RefreshTokenSecret: "rs"

\* errors are chains of messages, outermost first (fmt.Errorf with %w); <<>> is nil
TokNil == <<>>
ErrTokenType == <<"invalid token type">>
ErrTokenMalformed == <<"token is malformed">>
ErrTokenUnverifiable == <<"token is unverifiable", "unexpected signing method">>
ErrTokenSignature == <<"token signature is invalid">>
ErrTokenExpired == <<"token is expired">>
ErrTokenNotValidYet == <<"token is not valid yet">>
ErrTypeMismatch == <<"token type mismatch">>
ErrRevoked == <<"token has been revoked">>
ErrStoreIo == <<"redis: connection refused">>
ErrBlacklistCheck == <<"failed to check token blacklist">> \o ErrStoreIo
ErrBlacklistWrite == <<"failed to blacklist refresh token">> \o ErrStoreIo

\* fmt.Errorf(msg + ": %w", err)
Wrap(msg, err) == <<msg>> \o err

\* the token ids uuid.New().String() can return: "t1", "t2", ...
TokenIdPool == {<<116, 48 + i>> : i \in 1..MaxTokenIds}

\* the next two values of uuid.New(); ids are opaque, so the unused values are
\* taken in one fixed order
FreshIds(drawn) ==
    {<<a, r>> \in TokenIdPool \X TokenIdPool :
        /\ a \notin drawn /\ r \notin drawn /\ a[2] < r[2]
        /\ \A x \in TokenIdPool \ drawn : x = a \/ x = r \/ r[2] < x[2]}

\* the (userID, email, role) triples of the user records
Identities ==
    {[userID |-> 1, email |-> "a@x", role |-> "user"],
     [userID |-> 2, email |-> "b@x", role |-> "admin"]}

NoClaims == [userID |-> 0, email |-> "", role |-> "", tokenType |-> "",
             tokenID |-> <<>>, exp |-> 0, nbf |-> 0]

\* jwt.NewNumericDate(t): t truncated to TimePrecision
NewNumericDate(t) == t - (t % TimePrecision)

\* the Claims struct GenerateTokenPair fills for one token
NewClaims(userID, email, role, tokenType, tokenID, duration, t) ==
    [userID |-> userID, email |-> email, role |-> role, tokenType |-> tokenType,
     tokenID |-> tokenID, exp |-> NewNumericDate(t + duration), nbf |-> NewNumericDate(t)]

\* jwt.NewWithClaims(method, claims).SignedString(key): the token string, kept
\* as its header algorithm, its claims and the key its signature was made with
SignedString(alg, claims, key) == [alg |-> alg, claims |-> claims, key |-> key]

\* a string that is not three base64url segments
MalformedToken == SignedString("malformed", NoClaims, <<>>)
NoToken == SignedString("", NoClaims, <<>>)

\* variant: both tokens of a pair get the same id
GenerateTokenPairOneId(userID, email, role, accessTokenID, refreshTokenID, t) ==
    LET accessClaims == NewClaims(userID, email, role, AccessToken, accessTokenID,
                                  AccessTokenDuration, t)
        refreshClaims == NewClaims(userID, email, role, RefreshToken, accessTokenID,
                                   RefreshTokenDuration, t)
    IN  [AccessToken |-> SignedString("HS256", accessClaims, AccessSecret),
         RefreshToken |-> SignedString("HS256", refreshClaims, RefreshSecret),
         ExpiresIn |-> DefaultAccessTokenExp]

\* variant: email and role are exchanged in the access token's claims
GenerateTokenPairSwapped(userID, email, role, accessTokenID, refreshTokenID, t) ==
    LET accessClaims == NewClaims(userID, role, email, AccessToken, accessTokenID,
                                  AccessTokenDuration, t)
        refreshClaims == NewClaims(userID, email, role, RefreshToken, refreshTokenID,
                                   RefreshTokenDuration, t)
    IN  [AccessToken |-> SignedString("HS256", accessClaims, AccessSecret),
         RefreshToken |-> SignedString("HS256", refreshClaims, RefreshSecret),
         ExpiresIn |-> DefaultAccessTokenExp]

\* JWTService.GenerateTokenPair; the two ids are the values uuid.New() returns
GenerateTokenPair(userID, email, role, accessTokenID, refreshTokenID, t) ==
    LET accessClaims == NewClaims(userID, email, role, AccessToken, accessTokenID,
                                  AccessTokenDuration, t)
        refreshClaims == NewClaims(userID, email, role, RefreshToken, refreshTokenID,
                                   RefreshTokenDuration, t)
    IN  [AccessToken |-> SignedString("HS256", accessClaims, AccessSecret),
         RefreshToken |-> SignedString("HS256", refreshClaims, RefreshSecret),
         ExpiresIn |-> DefaultAccessTokenExp]

\* jwt.ParseWithClaims with the key function of ValidateToken: segments,
\* signing method, signature, then the registered claims exp and nbf
ParseWithClaims(tokenString, secret, t) ==
    IF tokenString.alg \in {"malformed", ""} THEN ErrTokenMalformed
    ELSE IF tokenString.alg /= "HS256" THEN ErrTokenUnverifiable
    ELSE IF tokenString.key /= secret THEN ErrTokenSignature
    ELSE IF ~(t < tokenString.claims.exp) THEN ErrTokenExpired
    ELSE IF t < tokenString.claims.nbf THEN ErrTokenNotValidYet
    ELSE TokNil

NoExpiry == 0 - 1
NotBlacklisted == [present |-> FALSE, expireAt |-> 0]

\* Redis drops a blacklist key when its expiry time is reached
ExpireBlacklist(store, t) ==
    [k \in DOMAIN store |->
        IF store[k].present /\ store[k].expireAt /= NoExpiry /\ store[k].expireAt <= t
        THEN NotBlacklisted ELSE store[k]]

\* variant: the write marks every token id as blacklisted
BlacklistTokenAll(store, tokenID, expiration, t) ==
    [k \in DOMAIN store |->
        [present |-> TRUE,
         expireAt |-> IF expiration > 0 THEN t + expiration ELSE NoExpiry]]

\* RedisClient.BlacklistToken: SET blacklist:token:<id> 1 with the expiration;
\* an expiration that is not positive sets the key without expiry
BlacklistToken(store, tokenID, expiration, t) ==
    [store EXCEPT ![tokenID] =
        [present |-> TRUE,
         expireAt |-> IF expiration > 0 THEN t + expiration ELSE NoExpiry]]

\* variant: no token is ever reported as blacklisted
IsTokenBlacklistedNever(store, tokenID, t) == FALSE

\* RedisClient.IsTokenBlacklisted: EXISTS blacklist:token:<id>
IsTokenBlacklisted(store, tokenID, t) ==
    /\ tokenID \in DOMAIN store
    /\ store[tokenID].present
    /\ (store[tokenID].expireAt = NoExpiry \/ t < store[tokenID].expireAt)

\* JWTService.ValidateToken; io is the outcome of the blacklist lookup
ValidateToken(tokenString, tokenType, store, io, t) ==
    IF tokenType \notin {AccessToken, RefreshToken}
    THEN [claims |-> NoClaims, err |-> ErrTokenType]
    ELSE LET secret == IF tokenType = AccessToken THEN AccessSecret ELSE RefreshSecret
             perr == ParseWithClaims(tokenString, secret, t)
             claims == tokenString.claims
         IN  IF perr /= TokNil
             THEN [claims |-> NoClaims, err |-> Wrap("failed to parse token", perr)]
             ELSE IF claims.tokenType /= tokenType
             THEN [claims |-> NoClaims, err |-> ErrTypeMismatch]
             ELSE IF io = "error"
             THEN [claims |-> NoClaims, err |-> ErrBlacklistCheck]
             ELSE IF IsTokenBlacklisted(store, claims.tokenID, t)
             THEN [claims |-> NoClaims, err |-> ErrRevoked]
             ELSE [claims |-> claims, err |-> TokNil]

\* variant: the remaining lifetime is taken one time unit too short
UntilShort(exp, t) == exp - t - 1

\* time.Until(claims.ExpiresAt.Time)
Until(exp, t) == exp - t

\* one entry of tokens: a token and the arguments GenerateTokenPair was given
IssueRecord(token, id, tokenType, t) ==
    [token |-> token, userID |-> id.userID, email |-> id.email, role |-> id.role,
     tokenType |-> tokenType, at |-> t]

IssueRecords(pair, id, t) ==
    {IssueRecord(pair.AccessToken, id, AccessToken, t),
     IssueRecord(pair.RefreshToken, id, RefreshToken, t)}

IssuedTokens == {i.token : i \in tokens}

\* tokens a client can make without the server's secrets
ForgedClaims == [userID |-> 2, email |-> "b@x", role |-> "admin", tokenType |-> AccessToken,
                 tokenID |-> <<116, 48>>, exp |-> TokMaxNow + TimePrecision, nbf |-> 0]
ForgedTokens ==
    {MalformedToken, SignedString("none", ForgedClaims, <<>>)}

\* the ValidateToken calls explored: every issued token under both types,
\* the forged ones as access tokens, and one call with an unknown type
ValidateCalls ==
    (IssuedTokens \X {AccessToken, RefreshToken})
        \cup (ForgedTokens \X {AccessToken})
        \cup {<<MalformedToken, "id">>}

NoPair == [AccessToken |-> NoToken, RefreshToken |-> NoToken, ExpiresIn |-> 0]
TkIdle == [token |-> NoToken, tokenType |-> "", io |-> "ok", live |-> FALSE, listed |-> FALSE,
           rejectedBefore |-> FALSE, err |-> <<"none">>, claims |-> NoClaims]
RtIdle == [pc |-> "idle", token |-> NoToken, claims |-> NoClaims, err |-> <<"none">>,
           pair |-> NoPair, rotatedBefore |-> FALSE, rejectedBefore |-> FALSE,
           listed |-> FALSE, live |-> FALSE, io |-> "ok"]

\* ValidateToken rejected the token as expired or as revoked
TerminalRejection(err) ==
    err \in {Wrap("failed to parse token", ErrTokenExpired), ErrRevoked}

\* the history keeps the first token rejected that way (a rejection changes
\* nothing else, so any token can be the first)
NoteRejection(hist, tokenString, err) ==
    [hist EXCEPT !.rejected =
        IF TerminalRejection(err) /\ @ = {} THEN {tokenString} ELSE @]

\* AuthService.Login: a token pair is issued for a user record
Login(id, accessTokenID, refreshTokenID) ==
    /\ now <= LoginMaxNow
    /\ {accessTokenID, refreshTokenID} \cap uuidDrawn = {}
    /\ accessTokenID /= refreshTokenID
    /\ LET pair == GenerateTokenPair(id.userID, id.email, id.role,
                                     accessTokenID, refreshTokenID, now)
       IN  tokens' = tokens \cup IssueRecords(pair, id, now)
    /\ uuidDrawn' = uuidDrawn \cup {accessTokenID, refreshTokenID}
    /\ UNCHANGED <<now, tsq, sig, nonceStore, issuedAt, vn, mw, blacklist, tk, rt, tokHist, callVars>>

\* a direct call of TokenService.ValidateToken(tokenString, tokenType), made
\* while no RefreshTokens call is in progress
CallValidateToken(tokenString, tokenType, io) ==
    /\ rt.pc /= "blacklist"
    /\ rt' = RtIdle
    /\ LET v == ValidateToken(tokenString, tokenType, blacklist, io, now)
       IN  /\ tk' = [token |-> tokenString, tokenType |-> tokenType, io |-> io,
                     live |-> now < tokenString.claims.exp,
                     listed |-> IsTokenBlacklisted(blacklist, tokenString.claims.tokenID, now),
                     rejectedBefore |-> tokenString \in tokHist.rejected,
                     err |-> v.err, claims |-> v.claims]
           /\ tokHist' = NoteRejection(tokHist, tokenString, v.err)
    /\ UNCHANGED <<now, tsq, sig, nonceVars, blacklist, tokens, callVars>>

\* RefreshTokens up to its first store call: s.ValidateToken(refreshToken, RefreshToken)
RtValidate(refreshToken, io) ==
    /\ rt.pc \in {"idle", "done"}
    /\ LET v == ValidateToken(refreshToken, RefreshToken, blacklist, io, now)
           call == [RtIdle EXCEPT !.token = refreshToken, !.io = io,
                       !.rotatedBefore = refreshToken \in tokHist.rotated,
                       !.rejectedBefore = refreshToken \in tokHist.rejected,
                       !.listed = IsTokenBlacklisted(blacklist, refreshToken.claims.tokenID, now),
                       !.live = now < refreshToken.claims.exp]
       IN  /\ rt' = IF v.err /= TokNil
                    THEN [call EXCEPT !.pc = "done",
                                      !.err = Wrap("invalid refresh token", v.err)]
                    ELSE [call EXCEPT !.pc = "blacklist", !.claims = v.claims]
           /\ tokHist' = NoteRejection(tokHist, refreshToken, v.err)
    /\ tk' = TkIdle
    /\ UNCHANGED <<now, tsq, sig, nonceVars, blacklist, tokens, callVars>>

\* variant: the used refresh token is not written to the blacklist
RtBlacklistSkipped(io, accessTokenID, refreshTokenID) ==
    /\ rt.pc = "blacklist"
    /\ {accessTokenID, refreshTokenID} \cap uuidDrawn = {}
    /\ accessTokenID /= refreshTokenID
    /\ LET pair == GenerateTokenPair(rt.claims.userID, rt.claims.email, rt.claims.role,
                                     accessTokenID, refreshTokenID, now)
       IN  /\ tokens' = tokens \cup IssueRecords(pair, rt.claims, now)
           /\ rt' = [rt EXCEPT !.pc = "done", !.err = TokNil, !.pair = pair]
    /\ uuidDrawn' = uuidDrawn \cup {accessTokenID, refreshTokenID}
    /\ tokHist' = [tokHist EXCEPT !.rotated = @ \cup {rt.token}]
    /\ UNCHANGED <<now, tsq, sig, nonceStore, issuedAt, vn, mw, blacklist, tk, callVars>>

\* variant: the blacklist entry lives for one time unit only
RtBlacklistShortTtl(io, accessTokenID, refreshTokenID) ==
    /\ rt.pc = "blacklist"
    /\ {accessTokenID, refreshTokenID} \cap uuidDrawn = {}
    /\ accessTokenID /= refreshTokenID
    /\ blacklist' = BlacklistToken(blacklist, rt.claims.tokenID, TimePrecision, now)
    /\ LET pair == GenerateTokenPair(rt.claims.userID, rt.claims.email, rt.claims.role,
                                     accessTokenID, refreshTokenID, now)
       IN  /\ tokens' = tokens \cup IssueRecords(pair, rt.claims, now)
           /\ rt' = [rt EXCEPT !.pc = "done", !.err = TokNil, !.pair = pair]
    /\ uuidDrawn' = uuidDrawn \cup {accessTokenID, refreshTokenID}
    /\ tokHist' = [tokHist EXCEPT !.rotated = @ \cup {rt.token}]
    /\ UNCHANGED <<now, tsq, sig, nonceStore, issuedAt, vn, mw, tk, callVars>>

\* variant: a pair is issued although the blacklist write failed
RtBlacklistIgnoresError(io, accessTokenID, refreshTokenID) ==
    /\ rt.pc = "blacklist"
    /\ {accessTokenID, refreshTokenID} \cap uuidDrawn = {}
    /\ accessTokenID /= refreshTokenID
    /\ LET expiry == Until(rt.claims.exp, now)
           pair == GenerateTokenPair(rt.claims.userID, rt.claims.email, rt.claims.role,
                                     accessTokenID, refreshTokenID, now)
       IN  /\ blacklist' = IF io = "error" THEN blacklist
                           ELSE BlacklistToken(blacklist, rt.claims.tokenID, expiry, now)
           /\ tokens' = tokens \cup IssueRecords(pair, rt.claims, now)
           /\ rt' = [rt EXCEPT !.pc = "done", !.err = TokNil, !.pair = pair]
    /\ uuidDrawn' = uuidDrawn \cup {accessTokenID, refreshTokenID}
    /\ tokHist' = [tokHist EXCEPT !.rotated = @ \cup {rt.token}]
    /\ UNCHANGED <<now, tsq, sig, nonceStore, issuedAt, vn, mw, tk, callVars>>

\* RefreshTokens after ValidateToken: blacklist the used token for the rest of
\* its lifetime, then GenerateTokenPair for the same identity
RtBlacklist(io, accessTokenID, refreshTokenID) ==
    /\ rt.pc = "blacklist"
    /\ IF io = "error"
       THEN /\ rt' = [rt EXCEPT !.pc = "done", !.err = ErrBlacklistWrite]
            /\ UNCHANGED <<blacklist, tokens, uuidDrawn, tokHist>>
       ELSE /\ {accessTokenID, refreshTokenID} \cap uuidDrawn = {}
            /\ accessTokenID /= refreshTokenID
            /\ LET expiry == Until(rt.claims.exp, now)
                   pair == GenerateTokenPair(rt.claims.userID, rt.claims.email,
                                             rt.claims.role, accessTokenID,
                                             refreshTokenID, now)
               IN  /\ blacklist' = BlacklistToken(blacklist, rt.claims.tokenID, expiry, now)
                   /\ tokens' = tokens \cup IssueRecords(pair, rt.claims, now)
                   /\ rt' = [rt EXCEPT !.pc = "done", !.err = TokNil, !.pair = pair]
            /\ uuidDrawn' = uuidDrawn \cup {accessTokenID, refreshTokenID}
            /\ tokHist' = [tokHist EXCEPT !.rotated = @ \cup {rt.token}]
    /\ UNCHANGED <<now, tsq, sig, nonceStore, issuedAt, vn, mw, tk, callVars>>

\* TokenService.BlacklistToken called to revoke an issued access token for the
\* rest of its lifetime (refresh tokens are blacklisted by RefreshTokens)
Revoke(tokenString, io) ==
    /\ tokenString \in IssuedTokens
    /\ tokenString.claims.tokenType = AccessToken
    /\ blacklist' = IF io = "error" THEN blacklist
                    ELSE BlacklistToken(blacklist, tokenString.claims.tokenID,
                                        Until(tokenString.claims.exp, now), now)
    /\ UNCHANGED <<now, tsq, sig, nonceVars, tokens, tk, rt, tokHist, callVars>>

\* time passes between token calls
TokTick ==
    /\ now < TokMaxNow
    /\ now' = now + 1
    /\ blacklist' = ExpireBlacklist(blacklist, now + 1)
    /\ UNCHANGED <<tsq, sig, nonceVars, tokens, tk, rt, tokHist, callVars>>

\* uuid values for RefreshTokens calls that run at the same time
RotIdPool == {<<116, 48 + i>> : i \in 1..MaxRotIds}

FreshRotIds(drawn) ==
    LET free == RotIdPool \ drawn
        a == CHOOSE x \in free : \A y \in free : ~StrLess(y, x)
        r == CHOOSE x \in free \ {a} : \A y \in free \ {a} : ~StrLess(y, x)
    IN  IF Cardinality(free) < 2 THEN {} ELSE {<<a, r>>}

\* RefreshTokens of goroutine g up to its first store call:
\* s.ValidateToken(refreshToken, RefreshToken)
RotValidate(g, refreshToken, io) ==
    /\ rot[g].pc \in {"idle", "done"}
    /\ LET v == ValidateToken(refreshToken, RefreshToken, blacklist, io, now)
           call == [RtIdle EXCEPT !.token = refreshToken, !.io = io,
                       !.listed = IsTokenBlacklisted(blacklist, refreshToken.claims.tokenID, now),
                       !.live = now < refreshToken.claims.exp]
       IN  rot' = [rot EXCEPT ![g] =
              IF v.err /= TokNil
              THEN [call EXCEPT !.pc = "done", !.err = Wrap("invalid refresh token", v.err)]
              ELSE [call EXCEPT !.pc = "blacklist", !.claims = v.claims]]
    /\ UNCHANGED <<now, tsq, sig, nonceVars, tokVars, gn>>

\* RefreshTokens of goroutine g after ValidateToken: s.BlacklistToken, then
\* s.GenerateTokenPair
RotBlacklist(g, io, accessTokenID, refreshTokenID) ==
    /\ rot[g].pc = "blacklist"
    /\ IF io = "error"
       THEN /\ rot' = [rot EXCEPT ![g] = [@ EXCEPT !.pc = "done", !.err = ErrBlacklistWrite]]
            /\ UNCHANGED <<blacklist, tokens, uuidDrawn>>
       ELSE /\ {accessTokenID, refreshTokenID} \cap uuidDrawn = {}
            /\ accessTokenID /= refreshTokenID
            /\ LET expiry == Until(rot[g].claims.exp, now)
                   pair == GenerateTokenPair(rot[g].claims.userID, rot[g].claims.email,
                                             rot[g].claims.role, accessTokenID,
                                             refreshTokenID, now)
               IN  /\ blacklist' = BlacklistToken(blacklist, rot[g].claims.tokenID, expiry, now)
                   /\ tokens' = tokens \cup IssueRecords(pair, rot[g].claims, now)
                   /\ rot' = [rot EXCEPT ![g] = [@ EXCEPT !.pc = "done", !.err = TokNil,
                                                          !.pair = pair]]
            /\ uuidDrawn' = uuidDrawn \cup {accessTokenID, refreshTokenID}
    /\ UNCHANGED <<now, tsq, sig, nonceStore, issuedAt, vn, mw, tk, rt, tokHist, gn>>

\* time passes while RefreshTokens calls run
RotTick ==
    /\ now < RotMaxNow
    /\ now' = now + 1
    /\ blacklist' = ExpireBlacklist(blacklist, now + 1)
    /\ UNCHANGED <<tsq, sig, nonceVars, tokens, tk, rt, tokHist, callVars>>

----------------------------------------------------------------------------
(* Requests and SecurityMiddleware *)

NoncePath == "/api/v1/auth/nonce"
UserPath == "/api/v1/users/me"
SignatureSecret == <<107, 49>>           \* config.Security.SignatureSecret: "k1"
ErrTsRequired == "timestamp is required"
ErrAllRequired == "timestamp, nonce, and signature are required"
ErrGenerate == "failed to generate nonce"
AdminPath == "/api/v1/admin/users/:id"
ErrAuthRequired == "authorization header required"
ErrAuthFormat == "invalid authorization header format"
ErrAccessToken == "invalid access token"
ErrNotAuthenticated == "user not authenticated"
ErrPermissions == "insufficient permissions"
StrBearer == <<66, 101, 97, 114, 101, 114>>      \* "Bearer"
StrBasic == <<66, 97, 115, 105, 99>>             \* "Basic"
Space == 32
JwtText == 1             \* stands for the text of the JWT a request carries

\* gin.Context.Keys before any c.Set
NoKeys == <<>>

NoHeaders == [h \in {"X-Timestamp", "X-Nonce", "X-Sign", "Authorization"} |-> <<>>]

\* a request; bearer is the JWT whose compact serialization the byte JwtText
\* stands for inside the Authorization header
NoRequest == [path |-> "", method |-> "", contentType |-> "",
              query |-> <<>>, header |-> NoHeaders, form |-> <<>>, json |-> <<>>,
              bearer |-> NoToken]

\* url.Values.Get(k): the value, or "" when the key is absent
Lookup(m, k) == IF k \in DOMAIN m THEN m[k] ELSE <<>>

Overlay(base, over) ==
    [k \in DOMAIN base \cup DOMAIN over |-> IF k \in DOMAIN over THEN over[k] ELSE base[k]]

Without(m, k) == [x \in DOMAIN m \ {k} |-> m[x]]

\* getParameter(c, paramName, headerName): query, then header, then form
getParameter(q, paramName, headerName) ==
    IF Lookup(q.query, paramName) /= <<>> THEN Lookup(q.query, paramName)
    ELSE IF q.header[headerName] /= <<>> THEN q.header[headerName]
    ELSE IF q.method /= "GET" /\ Lookup(q.form, paramName) /= <<>>
         THEN Lookup(q.form, paramName)
    ELSE <<>>

\* the params map SecurityMiddleware builds for signature validation
CollectParams(q, timestamp, nonce) ==
    LET fromQuery == Without(q.query, StrSign)
        withForm == IF q.method /= "GET"
                    THEN Overlay(fromQuery, Without(q.form, StrSign))
                    ELSE fromQuery
        withJson == IF q.method /= "GET" /\ q.contentType = "application/json"
                    THEN Overlay(withForm, q.json)
                    ELSE withForm
        withTs == IF q.header["X-Timestamp"] /= <<>>
                  THEN Overlay(withJson, StrTimestamp :> timestamp)
                  ELSE withJson
    IN  IF q.header["X-Nonce"] /= <<>>
        THEN Overlay(withTs, StrNonce :> nonce)
        ELSE withTs

MwIdle == [pc |-> "idle", req |-> NoRequest,
           timestamp |-> <<>>, nonce |-> <<>>, signature |-> <<>>,
           tsErr |-> "none", nonceErr |-> "none", sigErr |-> "none",
           status |-> 0, error |-> "", body |-> <<>>, next |-> FALSE,
           replay |-> FALSE,
           authErr |-> <<"none">>, keys |-> NoKeys, required |-> "", handler |-> FALSE,
           burnt |-> FALSE]

Requests == 1..MaxReq

\* the handler goroutine of slot r has returned, or never started
Finished(r) ==
    \/ mw[r].pc \in {"idle", "aborted", "responded"}
    \/ mw[r].pc = "next" /\ mw[r].req.path /= NoncePath

\* c.JSON(status, gin.H{"error": error}); c.Abort(); return
Abort(c, status, error) == [c EXCEPT !.pc = "aborted", !.status = status, !.error = error]

\* variant: the nonce is deleted before the timestamp is validated
MwReceiveBurnsNonce(r, q) ==
    /\ Finished(r)
    /\ LET timestamp == getParameter(q, StrTimestamp, "X-Timestamp")
           nonce == getParameter(q, StrNonce, "X-Nonce")
           c == [MwIdle EXCEPT !.req = q, !.timestamp = timestamp, !.nonce = nonce,
                               !.signature = getParameter(q, StrSign, "X-Sign")]
           tsErr == ValidateTimestamp(timestamp, TimestampWindow, now)
       IN  /\ nonceStore' = InvalidateNonce(nonceStore, nonce)
           /\ mw' = [mw EXCEPT ![r] =
                  IF tsErr /= ErrNil
                  THEN Abort([c EXCEPT !.tsErr = tsErr], 400, tsErr)
                  ELSE [c EXCEPT !.tsErr = tsErr, !.nonceErr = ErrNil, !.pc = "signature"]]
    /\ UNCHANGED <<now, tsq, sig, uuidDrawn, issuedAt, vn, tokVars, callVars>>

\* variant: the nonce lookup is started before the timestamp is validated
MwReceiveNonceFirst(r, q) ==
    /\ Finished(r)
    /\ mw' = [mw EXCEPT ![r] =
          [MwIdle EXCEPT !.req = q,
                         !.timestamp = getParameter(q, StrTimestamp, "X-Timestamp"),
                         !.nonce = getParameter(q, StrNonce, "X-Nonce"),
                         !.signature = getParameter(q, StrSign, "X-Sign"),
                         !.pc = "getNonce"]]
    /\ UNCHANGED <<now, tsq, sig, nonceStore, uuidDrawn, issuedAt, vn, tokVars, callVars>>

\* SecurityMiddleware, from the start of the handler to its first store call:
\* parameter extraction, the exempt route, the presence check, the timestamp
MwReceive(r, q) ==
    /\ Finished(r)
    /\ LET timestamp == getParameter(q, StrTimestamp, "X-Timestamp")
           nonce == getParameter(q, StrNonce, "X-Nonce")
           signature == getParameter(q, StrSign, "X-Sign")
           c == [MwIdle EXCEPT !.req = q, !.timestamp = timestamp, !.nonce = nonce,
                               !.signature = signature,
                               !.replay = \E o \in Requests \ {r} :
                                             mw[o].next /\ mw[o].req = q /\ q.path /= NoncePath,
                               !.burnt = \E o \in Requests \ {r} :
                                            /\ mw[o].sigErr = ErrSignature
                                            /\ mw[o].nonce = nonce
                                            /\ q.path /= NoncePath]
           tsErr == ValidateTimestamp(timestamp, TimestampWindow, now)
       IN  mw' = [mw EXCEPT ![r] =
              IF q.path = NoncePath
              THEN IF timestamp = <<>> THEN Abort(c, 400, ErrTsRequired)
                   ELSE IF tsErr /= ErrNil
                        THEN Abort([c EXCEPT !.tsErr = tsErr], 400, tsErr)
                        ELSE [c EXCEPT !.tsErr = tsErr, !.pc = "next", !.next = TRUE]
              ELSE IF timestamp = <<>> \/ nonce = <<>> \/ signature = <<>>
                   THEN Abort(c, 400, ErrAllRequired)
                   ELSE IF tsErr /= ErrNil
                        THEN Abort([c EXCEPT !.tsErr = tsErr], 400, tsErr)
                        ELSE [c EXCEPT !.tsErr = tsErr, !.pc = "getNonce"]]
    /\ UNCHANGED <<now, tsq, sig, nonceStore, uuidDrawn, issuedAt, vn, tokVars, callVars>>

\* ValidateNonce, first store call: s.getNonce(nonce)
MwGetNonce(r, io) ==
    /\ mw[r].pc = "getNonce"
    /\ mw' = [mw EXCEPT ![r] =
          IF io = "error"
          THEN Abort([@ EXCEPT !.nonceErr = ErrNonceCheck], 400, ErrNonceCheck)
          ELSE IF ~GetNonce(nonceStore, mw[r].nonce, now)
               THEN Abort([@ EXCEPT !.nonceErr = ErrNonce], 400, ErrNonce)
               ELSE [@ EXCEPT !.pc = "invalidateNonce"]]
    /\ UNCHANGED <<now, tsq, sig, nonceStore, uuidDrawn, issuedAt, vn, tokVars, callVars>>

\* ValidateNonce, second store call: s.invalidateNonce(nonce)
MwInvalidateNonce(r, io) ==
    /\ mw[r].pc = "invalidateNonce"
    /\ IF io = "error"
       THEN /\ mw' = [mw EXCEPT ![r] =
                  Abort([@ EXCEPT !.nonceErr = ErrNonceInvalidate], 400, ErrNonceInvalidate)]
            /\ UNCHANGED nonceStore
       ELSE /\ nonceStore' = InvalidateNonce(nonceStore, mw[r].nonce)
            /\ mw' = [mw EXCEPT ![r] = [@ EXCEPT !.nonceErr = ErrNil, !.pc = "signature"]]
    /\ UNCHANGED <<now, tsq, sig, uuidDrawn, issuedAt, vn, tokVars, callVars>>

\* variant: the handler chain continues whatever ValidateSignature returns
MwSignatureAlwaysNext(r, order) ==
    /\ mw[r].pc = "signature"
    /\ LET params == CollectParams(mw[r].req, mw[r].timestamp, mw[r].nonce)
       IN  /\ order \in RangeOrders(params)
           /\ mw' = [mw EXCEPT ![r] =
                  [@ EXCEPT !.sigErr = ValidateSignature(params, order, mw[r].signature, SignatureSecret),
                            !.pc = "next", !.next = TRUE]]
    /\ UNCHANGED <<now, tsq, sig, nonceStore, uuidDrawn, issuedAt, vn, tokVars, callVars>>

\* variant: a request whose signature is invalid puts its nonce back
MwSignatureRestoresNonce(r, order) ==
    /\ mw[r].pc = "signature"
    /\ LET params == CollectParams(mw[r].req, mw[r].timestamp, mw[r].nonce)
           err == ValidateSignature(params, order, mw[r].signature, SignatureSecret)
       IN  /\ order \in RangeOrders(params)
           /\ IF err /= ErrNil
              THEN /\ mw' = [mw EXCEPT ![r] = Abort([@ EXCEPT !.sigErr = err], 400, err)]
                   /\ nonceStore' = StoreNonce(nonceStore, mw[r].nonce, NonceValidityTime, now)
              ELSE /\ mw' = [mw EXCEPT ![r] = [@ EXCEPT !.sigErr = err, !.pc = "next",
                                                        !.next = TRUE]]
                   /\ UNCHANGED nonceStore
    /\ UNCHANGED <<now, tsq, sig, uuidDrawn, issuedAt, vn, tokVars, callVars>>

\* SecurityMiddleware after ValidateNonce: build params, validate the signature
MwSignature(r, order) ==
    /\ mw[r].pc = "signature"
    /\ LET params == CollectParams(mw[r].req, mw[r].timestamp, mw[r].nonce)
           err == ValidateSignature(params, order, mw[r].signature, SignatureSecret)
       IN  /\ order \in RangeOrders(params)
           /\ IF err /= ErrNil
              THEN mw' = [mw EXCEPT ![r] = Abort([@ EXCEPT !.sigErr = err], 400, err)]
              ELSE mw' = [mw EXCEPT ![r] = [@ EXCEPT !.sigErr = err, !.pc = "next", !.next = TRUE]]
    /\ UNCHANGED <<now, tsq, sig, nonceStore, uuidDrawn, issuedAt, vn, tokVars, callVars>>

\* variant: the nonce endpoint's handler also deletes the nonce the request carried
GetNonceHandlerConsuming(r, uuid, io) ==
    /\ mw[r].pc = "next" /\ mw[r].req.path = NoncePath
    /\ uuid \notin uuidDrawn
    /\ LET g == GenerateNonce(InvalidateNonce(nonceStore, mw[r].nonce), uuid, "ok", now)
       IN  /\ nonceStore' = g.store
           /\ uuidDrawn' = uuidDrawn \cup {uuid}
           /\ mw' = [mw EXCEPT ![r] = [@ EXCEPT !.pc = "responded", !.status = 200, !.body = g.nonce]]
    /\ UNCHANGED <<now, tsq, sig, issuedAt, vn, tokVars, callVars>>

\* AuthController.GetNonce, the handler c.Next() reaches on the nonce endpoint
GetNonceHandler(r, uuid, io) ==
    /\ mw[r].pc = "next" /\ mw[r].req.path = NoncePath
    /\ uuid \notin uuidDrawn
    /\ LET g == GenerateNonce(nonceStore, uuid, io, now)
       IN  /\ nonceStore' = g.store
           /\ uuidDrawn' = uuidDrawn \cup {uuid}
           /\ mw' = [mw EXCEPT ![r] =
                  IF g.err /= ErrNil
                  THEN [@ EXCEPT !.pc = "responded", !.status = 500, !.error = ErrGenerate]
                  ELSE [@ EXCEPT !.pc = "responded", !.status = 200, !.body = g.nonce]]
    /\ UNCHANGED <<now, tsq, sig, issuedAt, vn, tokVars, callVars>>

\* strings.SplitN(s, " ", 2)
SplitN(s) ==
    IF \A i \in 1..Len(s) : s[i] /= Space THEN <<s>>
    ELSE LET i == CHOOSE j \in 1..Len(s) : s[j] = Space /\ \A k \in 1..(j - 1) : s[k] /= Space
         IN  <<SubSeq(s, 1, i - 1), SubSeq(s, i + 1, Len(s))>>

\* the token string ValidateToken is handed: the carried JWT when the text
\* is exactly the JWT's text, otherwise a string that is not a JWT
TokenString(text, bearer) == IF text = <<JwtText>> THEN bearer ELSE MalformedToken

\* c.Set for the four claims
ClaimKeys(claims) ==
    [userID |-> claims.userID, email |-> claims.email, role |-> claims.role,
     tokenID |-> claims.tokenID]

\* variant: the scheme in front of the token is not compared with "Bearer"
AuthMiddlewareAnyScheme(c, store, io, t) ==
    LET authHeader == c.req.header["Authorization"]
        parts == SplitN(authHeader)
    IN  IF authHeader = <<>> THEN Abort(c, 401, ErrAuthRequired)
        ELSE IF Len(parts) /= 2 THEN Abort(c, 401, ErrAuthFormat)
        ELSE LET v == ValidateToken(TokenString(parts[2], c.req.bearer), AccessToken,
                                    store, io, t)
             IN  IF v.err /= TokNil
                 THEN Abort([c EXCEPT !.authErr = v.err], 401, ErrAccessToken)
                 ELSE [c EXCEPT !.authErr = TokNil, !.keys = ClaimKeys(v.claims),
                                !.pc = "authNext"]

\* AuthMiddleware; io is the outcome of the blacklist lookup ValidateToken makes
AuthMiddleware(c, store, io, t) ==
    LET authHeader == c.req.header["Authorization"]
        parts == SplitN(authHeader)
    IN  IF authHeader = <<>> THEN Abort(c, 401, ErrAuthRequired)
        ELSE IF ~(Len(parts) = 2 /\ parts[1] = StrBearer) THEN Abort(c, 401, ErrAuthFormat)
        ELSE LET v == ValidateToken(TokenString(parts[2], c.req.bearer), AccessToken,
                                    store, io, t)
             IN  IF v.err /= TokNil
                 THEN Abort([c EXCEPT !.authErr = v.err], 401, ErrAccessToken)
                 ELSE [c EXCEPT !.authErr = TokNil, !.keys = ClaimKeys(v.claims),
                                !.pc = "authNext"]

\* variant: a context without a role passes the gate
RoleMiddlewareAbsentPasses(c, requiredRole) ==
    LET g == [c EXCEPT !.required = requiredRole]
    IN  IF "role" \in DOMAIN c.keys /\ c.keys.role /= requiredRole
        THEN Abort(g, 403, ErrPermissions)
        ELSE [g EXCEPT !.pc = "roleNext"]

\* RoleMiddleware(requiredRole)
RoleMiddleware(c, requiredRole) ==
    LET g == [c EXCEPT !.required = requiredRole]
    IN  IF "role" \notin DOMAIN c.keys THEN Abort(g, 401, ErrNotAuthenticated)
        ELSE IF c.keys.role /= requiredRole THEN Abort(g, 403, ErrPermissions)
        ELSE [g EXCEPT !.pc = "roleNext"]

\* routes registered behind authMiddleware
IdentityPaths == {UserPath, AdminPath}

\* the handler goroutine of slot r has returned, the whole chain included
ChainFinished(r) == mw[r].pc \in {"idle", "aborted", "responded"}

\* a request enters the chain of its route: SecurityMiddleware comes first
ChainReceive(r, q) ==
    /\ ChainFinished(r)
    /\ MwReceive(r, q)

\* variant: authMiddleware is mounted in front of the nonce check
AuthStepEarly(r, io) ==
    /\ mw[r].pc = "getNonce" /\ mw[r].req.path \in IdentityPaths
    /\ mw' = [mw EXCEPT ![r] = AuthMiddleware(@, blacklist, io, now)]
    /\ UNCHANGED <<now, tsq, sig, nonceStore, uuidDrawn, issuedAt, vn, tokVars, callVars>>

\* c.Next() of SecurityMiddleware on a route behind authMiddleware
AuthStep(r, io) ==
    /\ mw[r].pc = "next" /\ mw[r].req.path \in IdentityPaths
    /\ mw' = [mw EXCEPT ![r] = AuthMiddleware(@, blacklist, io, now)]
    /\ UNCHANGED <<now, tsq, sig, nonceStore, uuidDrawn, issuedAt, vn, tokVars, callVars>>

\* c.Next() of AuthMiddleware on the admin routes: adminMiddleware
RoleStep(r) ==
    /\ mw[r].pc = "authNext" /\ mw[r].req.path = AdminPath
    /\ mw' = [mw EXCEPT ![r] = RoleMiddleware(@, "admin")]
    /\ UNCHANGED <<now, tsq, sig, nonceStore, uuidDrawn, issuedAt, vn, tokVars, callVars>>

\* the last c.Next() of the chain: the controller method of the route runs;
\* what it answers is not modelled
Handler(r) ==
    /\ \/ mw[r].pc = "authNext" /\ mw[r].req.path = UserPath
       \/ mw[r].pc = "roleNext" /\ mw[r].req.path = AdminPath
    /\ mw' = [mw EXCEPT ![r] = [@ EXCEPT !.pc = "responded", !.handler = TRUE]]
    /\ UNCHANGED <<now, tsq, sig, nonceStore, uuidDrawn, issuedAt, vn, tokVars, callVars>>

\* RoleMiddleware(requiredRole) run on a context holding keys, in front of a
\* handler that does nothing
CallRoleMiddleware(r, keys, requiredRole) ==
    /\ ChainFinished(r)
    /\ LET c == RoleMiddleware([MwIdle EXCEPT !.keys = keys], requiredRole)
       IN  mw' = [mw EXCEPT ![r] =
              IF c.pc = "roleNext" THEN [c EXCEPT !.pc = "responded", !.handler = TRUE]
              ELSE c]
    /\ UNCHANGED <<now, tsq, sig, nonceStore, uuidDrawn, issuedAt, vn, tokVars, callVars>>

\* time passes while one request after the other goes through its chain
ChainTick ==
    /\ now < ChainMaxNow
    /\ now' = now + 1
    /\ nonceStore' = ExpireKeys(nonceStore, now + 1)
    /\ blacklist' = ExpireBlacklist(blacklist, now + 1)
    /\ UNCHANGED <<tsq, sig, uuidDrawn, issuedAt, vn, mw, tokens, tk, rt, tokHist, callVars>>

\* time passes between sequential calls
SvcTick ==
    /\ now < SvcMaxNow
    /\ now' = now + 1
    /\ nonceStore' = ExpireKeys(nonceStore, now + 1)
    /\ UNCHANGED <<tsq, sig, uuidDrawn, issuedAt, vn, mw, tokVars, callVars>>

\* time passes while requests are handled
Tick ==
    /\ now < MaxNow
    /\ now' = now + 1
    /\ nonceStore' = ExpireKeys(nonceStore, now + 1)
    /\ UNCHANGED <<tsq, sig, uuidDrawn, issuedAt, vn, mw, tokVars, callVars>>

----------------------------------------------------------------------------
(* The requests clients send *)

BodyA == <<97>> :> <<49>>                \* {"a": "1"}

\* sendSecureRequest of the test client: sign timestamp, nonce and the body's
\* string fields, then send the three security values in one carrier
SignedRequest(path, carrier, ts, nonce, body) ==
    LET params == Overlay((StrTimestamp :> ts) @@ (StrNonce :> nonce), body)
        sign == calculateSignature(params, SignatureSecret)
        fields == (StrTimestamp :> ts) @@ (StrNonce :> nonce) @@ (StrSign :> sign)
    IN  [path |-> path,
         method |-> IF body = <<>> /\ carrier /= "form" THEN "GET" ELSE "PUT",
         contentType |-> IF carrier = "form" THEN "application/x-www-form-urlencoded"
                         ELSE "application/json",
         query |-> IF carrier = "query" THEN fields ELSE <<>>,
         header |-> IF carrier = "header"
                    THEN [h \in DOMAIN NoHeaders |->
                            IF h = "X-Timestamp" THEN ts
                            ELSE IF h = "X-Nonce" THEN nonce
                            ELSE IF h = "X-Sign" THEN sign ELSE <<>>]
                    ELSE NoHeaders,
         form |-> IF carrier = "form" THEN fields ELSE <<>>,
         json |-> IF carrier = "form" THEN <<>> ELSE body,
         bearer |-> NoToken]

UserDefects == {"noTimestamp", "badTimestamp", "noNonce", "noSign", "badSign"}
NonceRouteDefects == {"noTimestamp", "badTimestamp", "timestampOnly"}

\* a header-carried request with one thing wrong
Defective(q, d) ==
    [q EXCEPT !.header = [h \in DOMAIN NoHeaders |->
        IF h = "X-Timestamp" /\ d = "noTimestamp" THEN <<>>
        ELSE IF h = "X-Timestamp" /\ d = "badTimestamp" THEN <<53, 120>>
        ELSE IF h = "X-Nonce" /\ d \in {"noNonce", "timestampOnly"} THEN <<>>
        ELSE IF h = "X-Sign" /\ d \in {"noSign", "timestampOnly"} THEN <<>>
        ELSE IF h = "X-Sign" /\ d = "badSign" THEN BadSignature
        ELSE q.header[h]]]

FirstTs == FormatInt(StartNow \div TicksPerMs)
FirstNonce == CHOOSE n \in NoncePool : \A m \in NoncePool : ~StrLess(m, n)

RequestSamples ==
    {SignedRequest(UserPath, "header", FirstTs, n, <<>>) : n \in NoncePool}
    \cup {SignedRequest(UserPath, c, FirstTs, FirstNonce, <<>>) : c \in {"query", "form"}}
    \cup {SignedRequest(UserPath, "header", FirstTs, FirstNonce, BodyA)}
    \cup {Defective(SignedRequest(UserPath, "header", FirstTs, FirstNonce, <<>>), d) :
            d \in UserDefects}
    \cup {SignedRequest(NoncePath, "header", FirstTs, FirstNonce, <<>>)}
    \cup {Defective(SignedRequest(NoncePath, "header", FirstTs, FirstNonce, <<>>), d) :
            d \in NonceRouteDefects}
    \cup {[Defective(SignedRequest(NoncePath, "header", FirstTs, FirstNonce, <<>>),
                     "timestampOnly") EXCEPT !.query = StrTimestamp :> <<53, 120>>]}

\* Authorization header values; JwtText marks where the carried JWT stands
AuthBearer == StrBearer \o <<Space, JwtText>>                 \* "Bearer <jwt>"
AuthForms ==
    {<<>>,                                                    \* no header
     StrBearer,                                               \* "Bearer"
     <<JwtText>>,                                             \* "<jwt>"
     StrBasic \o <<Space, JwtText>>,                          \* "Basic <jwt>"
     StrBearer \o <<Space, Space, JwtText>>}                  \* "Bearer  <jwt>"

WithBearer(q, authorization, token) ==
    [q EXCEPT !.header = [q.header EXCEPT !["Authorization"] = authorization],
              !.bearer = IF \E i \in 1..Len(authorization) : authorization[i] = JwtText
                         THEN token ELSE NoToken]

IssuedAccessTokens == {t \in IssuedTokens : t.claims.tokenType = AccessToken}

\* requests that carry timestamp and nonce in headers, signed over the header
\* values, and another timestamp in the query, the form or the JSON body
SecondTs == FormatInt((StartNow \div TicksPerMs) + 1)
PrecedenceSamples ==
    LET q == SignedRequest(UserPath, "header", SecondTs, FirstNonce, <<>>)
        other == StrTimestamp :> FirstTs
    IN  {[q EXCEPT !.query = other],
         [q EXCEPT !.method = "PUT", !.contentType = "application/x-www-form-urlencoded",
                   !.form = other],
         [q EXCEPT !.method = "PUT", !.json = other]}

\* a request with timestamp, nonce and sign in the query string and a JSON
\* body with fields of the same names, signed over the body's values
BodyOverQuery ==
    SignedRequest(UserPath, "query", FirstTs, FirstNonce,
                  (StrTimestamp :> <<57>>) @@ (StrNonce :> <<122>>))

\* what clients send to the routes behind authMiddleware, given the tokens
\* issued so far
ChainSamples ==
    {WithBearer(SignedRequest(p, "header", FirstTs, n, <<>>), AuthBearer, t) :
        p \in IdentityPaths, n \in NoncePool, t \in IssuedTokens \cup ForgedTokens}
    \cup {WithBearer(SignedRequest(UserPath, "header", FirstTs, FirstNonce, <<>>), h, t) :
            h \in AuthForms, t \in IssuedAccessTokens}
    \cup {WithBearer(Defective(SignedRequest(UserPath, "header", FirstTs, FirstNonce, <<>>),
                               "badSign"), AuthBearer, t) : t \in IssuedTokens}
    \cup {SignedRequest(NoncePath, "header", FirstTs, FirstNonce, <<>>)}
    \cup PrecedenceSamples
    \cup {BodyOverQuery}

\* contexts and roles RoleMiddleware is run on by itself
KeySamples ==
    {NoKeys} \cup {ClaimKeys(NewClaims(id.userID, id.email, id.role, AccessToken,
                                       <<116, 49>>, AccessTokenDuration, StartNow)) :
                     id \in Identities}
RequiredRoles == {"admin", "Admin", "user"}

----------------------------------------------------------------------------
(* Specifications *)

NonceInit ==
    /\ nonceStore = [n \in NoncePool |-> Absent]
    /\ uuidDrawn = {}
    /\ issuedAt = [n \in NoncePool |-> [at |-> NeverIssued, calls |-> 0, oks |-> 0]]
    /\ vn = VnIdle
    /\ mw = [r \in Requests |-> MwIdle]

CallInit ==
    /\ gn = [g \in Callers |-> GnIdle]
    /\ rot = [g \in Callers |-> RtIdle]

TokInit ==
    /\ blacklist = [id \in TokenIdPool |-> NotBlacklisted]
    /\ tokens = {}
    /\ tk = TkIdle
    /\ rt = RtIdle
    /\ tokHist = [rotated |-> {}, rejected |-> {}]

TsInit ==
    /\ now = StartNow
    /\ tsq = TsIdle
    /\ sig = SigIdle
    /\ NonceInit
    /\ TokInit
    /\ CallInit

TsNext ==
    \/ TsTick
    \/ \E t \in TsStrings, w \in 0..MaxWindow : CallValidateTimestamp(t, w)
    \/ \E t \in TsStrings : AuthValidateTimestamp(t)

TsSpec == TsInit /\ [][TsNext]_vars

SigInit ==
    /\ now = StartNow
    /\ tsq = TsIdle
    /\ \E m \in ParamMaps, s \in Secrets :
          sig = [SigIdle EXCEPT !.params = m, !.secret = s]
    /\ NonceInit
    /\ TokInit
    /\ CallInit

SigNext ==
    \/ \E o \in RangeOrders(sig.params), s \in Secrets : SigSign(o, s)
    \/ \E s \in {<<>>, BadSignature} : SigForge(s)
    \/ \E o \in RangeOrders(sig.params) : SigValidate(o)
    \/ \E k \in SigKeys, v \in SigValues, o \in RangeOrders(sig.params) :
          SigChangeValue(k, v, o)
    \/ \E s \in Secrets, o \in RangeOrders(sig.params) : SigChangeSecret(s, o)
    \/ \E m \in ParamMaps : \E o \in RangeOrders(m) : SigChangeParams(m, o)

SigSpec == SigInit /\ [][SigNext]_vars

SvcInit ==
    /\ now = StartNow
    /\ tsq = TsIdle
    /\ sig = SigIdle
    /\ NonceInit
    /\ TokInit
    /\ CallInit

SvcNext ==
    \/ SvcTick
    \/ \E u \in NoncePool, io \in IoOutcomes : SvcGenerateNonce(u, io)
    \/ \E n \in NoncePool, ioGet \in IoOutcomes, ioDel \in IoOutcomes :
          SvcValidateNonce(n, ioGet, ioDel)

SvcSpec == SvcInit /\ [][SvcNext]_vars

NrsInit ==
    /\ now = StartNow
    /\ tsq = TsIdle
    /\ sig = SigIdle
    /\ NonceInit
    /\ TokInit
    /\ CallInit

NrsNext ==
    \/ NrsTick
    \/ \E n \in NoncePool, io \in IoOutcomes : NrsStoreNonce(n, io)
    \/ \E g \in Callers, n \in NoncePool, io \in IoOutcomes : GnExists(g, n, io)
    \/ \E g \in Callers, io \in IoOutcomes : GnDel(g, io)

NrsSpec == NrsInit /\ [][NrsNext]_vars

RotInit ==
    /\ now = StartNow
    /\ tsq = TsIdle
    /\ sig = SigIdle
    /\ NonceInit
    /\ TokInit
    /\ CallInit

RotNext ==
    \/ RotTick
    \/ \E id \in Identities, ids \in FreshRotIds(uuidDrawn) :
          tokens = {} /\ Login(id, ids[1], ids[2])
    \/ \E g \in Callers, t \in IssuedTokens, io \in IoOutcomes : RotValidate(g, t, io)
    \/ \E g \in Callers, io \in IoOutcomes, ids \in FreshRotIds(uuidDrawn) :
          RotBlacklist(g, io, ids[1], ids[2])

RotSpec == RotInit /\ [][RotNext]_vars

TokSpecInit ==
    /\ now = StartNow
    /\ tsq = TsIdle
    /\ sig = SigIdle
    /\ NonceInit
    /\ TokInit
    /\ CallInit

TokNext ==
    \/ TokTick
    \/ \E id \in Identities, ids \in FreshIds(uuidDrawn) : Login(id, ids[1], ids[2])
    \/ \E c \in ValidateCalls, io \in IoOutcomes : CallValidateToken(c[1], c[2], io)
    \/ \E t \in IssuedTokens \cup ForgedTokens, io \in IoOutcomes : RtValidate(t, io)
    \/ \E io \in IoOutcomes, ids \in FreshIds(uuidDrawn) : RtBlacklist(io, ids[1], ids[2])
    \/ \E t \in IssuedTokens, io \in IoOutcomes : Revoke(t, io)

TokSpec == TokSpecInit /\ [][TokNext]_vars

ChainSlot == 1

\* uuid.New() returns a value never returned before; which one is immaterial
FreshNonces(drawn) ==
    {n \in NoncePool \ drawn : \A m \in NoncePool \ drawn : ~StrLess(m, n)}

ChainInit ==
    /\ now = StartNow
    /\ tsq = TsIdle
    /\ sig = SigIdle
    /\ NonceInit
    /\ TokInit
    /\ CallInit

ChainNext ==
    \/ ChainTick
    \/ \E id \in Identities, ids \in FreshIds(uuidDrawn) :
          Cardinality(tokens) < 2 * ChainMaxLogins /\ Login(id, ids[1], ids[2])
    \/ \E t \in IssuedTokens, io \in IoOutcomes : Revoke(t, io)
    \/ \E q \in ChainSamples : ChainReceive(ChainSlot, q)
    \/ \E io \in IoOutcomes : MwGetNonce(ChainSlot, io)
    \/ \E io \in IoOutcomes : MwInvalidateNonce(ChainSlot, io)
    \/ \E o \in RangeOrders(CollectParams(mw[ChainSlot].req, mw[ChainSlot].timestamp,
                                          mw[ChainSlot].nonce)) : MwSignature(ChainSlot, o)
    \/ \E u \in FreshNonces(uuidDrawn), io \in IoOutcomes : GetNonceHandler(ChainSlot, u, io)
    \/ \E io \in IoOutcomes : AuthStep(ChainSlot, io)
    \/ RoleStep(ChainSlot)
    \/ Handler(ChainSlot)
    \/ \E k \in KeySamples, role \in RequiredRoles : CallRoleMiddleware(ChainSlot, k, role)

ChainSpec == ChainInit /\ [][ChainNext]_vars

MwParams(r) == CollectParams(mw[r].req, mw[r].timestamp, mw[r].nonce)

Init ==
    /\ now = StartNow
    /\ tsq = TsIdle
    /\ sig = SigIdle
    /\ NonceInit
    /\ TokInit
    /\ CallInit

Next ==
    \/ Tick
    \/ \E r \in Requests, q \in RequestSamples : MwReceive(r, q)
    \/ \E r \in Requests, io \in IoOutcomes : MwGetNonce(r, io)
    \/ \E r \in Requests, io \in IoOutcomes : MwInvalidateNonce(r, io)
    \/ \E r \in Requests : \E o \in RangeOrders(MwParams(r)) : MwSignature(r, o)
    \/ \E r \in Requests, u \in NoncePool, io \in IoOutcomes : GetNonceHandler(r, u, io)

Spec == Init /\ [][Next]_vars

----------------------------------------------------------------------------
(* C2: two requests validating the same stored nonce at the same time,     *)
(* with their existence checks and deletes interleaved in any order, never *)
(* both pass ValidateNonce.                                                *)
C2_RaceFreeConsumption ==
    \A r1 \in Requests, r2 \in Requests :
        (r1 /= r2 /\ mw[r1].nonceErr = ErrNil /\ mw[r2].nonceErr = ErrNil)
            => mw[r1].nonce /= mw[r2].nonce

(* C3: on a non-exempt route the nonce is looked up or deleted only after  *)
(* the timestamp check has passed, and the signature is verified only      *)
(* after the nonce has been consumed.                                      *)
C3_CheckOrder ==
    \A r \in Requests : mw[r].req.path /= NoncePath =>
        /\ (mw[r].pc \in {"getNonce", "invalidateNonce", "signature"}
                \/ mw[r].nonceErr /= "none") => mw[r].tsErr = ErrNil
        /\ (mw[r].pc = "signature" \/ mw[r].sigErr /= "none") =>
                mw[r].tsErr = ErrNil /\ mw[r].nonceErr = ErrNil

\* a request whose signature was verified after its nonce was consumed
C3_Witness ==
    \E r \in Requests :
        /\ mw[r].req.path = UserPath
        /\ mw[r].sigErr = ErrNil /\ mw[r].nonceErr = ErrNil /\ mw[r].tsErr = ErrNil

(* C4: a request rejected before the nonce step (a missing value, an       *)
(* unparsable or out-of-window timestamp) leaves the nonce store as it     *)
(* was, so the nonce it carried stays consumable.                          *)
C4_EarlyRejectKeepsNonces ==
    [][\A r \in Requests :
          (Finished(r) /\ mw'[r] /= mw[r] /\ mw'[r].pc = "aborted")
              => nonceStore' = nonceStore]_vars

\* a request was rejected for its timestamp while the nonce it carried is stored
C4_Witness ==
    \E r \in Requests :
        /\ mw[r].pc = "aborted" /\ mw[r].req.path = UserPath
        /\ mw[r].error \in {ErrAllRequired, ErrTsFormat, ErrTsWindow}
        /\ mw[r].nonceErr = "none"
        /\ GetNonce(nonceStore, mw[r].req.header["X-Nonce"], now)

(* C5: on a non-exempt route the downstream handler runs only when the     *)
(* timestamp check, the nonce consumption and the signature verification   *)
(* all succeeded; a failed step aborts with 400 and the handler never runs.*)
C5_NoPartialAdmission ==
    \A r \in Requests : (mw[r].req.path /= NoncePath /\ mw[r].pc /= "idle") =>
        /\ mw[r].next =>
              /\ mw[r].tsErr = ErrNil /\ mw[r].nonceErr = ErrNil /\ mw[r].sigErr = ErrNil
              /\ mw[r].signature = calculateSignature(MwParams(r), SignatureSecret)
        /\ (\E e \in {mw[r].tsErr, mw[r].nonceErr, mw[r].sigErr} : e \notin {"none", ErrNil})
              => mw[r].pc = "aborted"
        /\ mw[r].pc = "aborted" => ~mw[r].next /\ mw[r].status = 400

\* a request with a consumed nonce and a wrong signature was aborted
C5_Witness ==
    \E r \in Requests :
        /\ mw[r].pc = "aborted" /\ mw[r].sigErr = ErrSignature
        /\ mw[r].nonceErr = ErrNil /\ ~mw[r].next

(* C6: a signed request received after the identical request was admitted  *)
(* is never admitted: it is rejected at the timestamp or the nonce step.   *)
C6_NoReplay ==
    \A r \in Requests : mw[r].replay =>
        /\ ~mw[r].next
        /\ mw[r].pc \in {"getNonce", "aborted"}
        /\ mw[r].pc = "aborted" =>
              mw[r].error \in {ErrTsWindow, ErrNonce, ErrNonceCheck}

\* a replayed request was refused for its nonce
C6_Witness ==
    \E r \in Requests :
        mw[r].replay /\ mw[r].pc = "aborted" /\ mw[r].error = ErrNonce

C7_NonceRouteState ==
    \A r \in Requests : mw[r].req.path = NoncePath =>
        /\ mw[r].nonceErr = "none" /\ mw[r].sigErr = "none"
        /\ mw[r].pc \in {"aborted", "next", "responded"}
        /\ mw[r].pc = "aborted" <=> ~mw[r].next
        /\ mw[r].pc = "aborted" => mw[r].status = 400

C7_NonceRouteStep ==
    \A r \in Requests : (mw'[r] /= mw[r] /\ mw'[r].req.path = NoncePath) =>
        /\ \A n \in NoncePool : GetNonce(nonceStore, n, now) => GetNonce(nonceStore', n, now)
        /\ Finished(r) =>
              LET q == mw'[r].req
                  carried == IF Lookup(q.query, StrTimestamp) /= <<>>
                             THEN q.query[StrTimestamp]
                             ELSE q.header["X-Timestamp"]
              IN  mw'[r].next <=>
                      ValidateTimestamp(carried, TimestampWindow, now) = ErrNil

(* C7: a request to the nonce endpoint is admitted exactly when the         *)
(* timestamp it carries (the query parameter, else the X-Timestamp header) *)
(* passes ValidateTimestamp, otherwise it is rejected with 400; it is      *)
(* never put through the nonce or signature check, and no stored nonce is  *)
(* consumed while it is handled.                                           *)
C7_NonceRoute == []C7_NonceRouteState /\ [][C7_NonceRouteStep]_vars

\* a nonce-endpoint request carrying an earlier, stored nonce got a new nonce
\* and the one it carried is still stored
C7_Witness ==
    \E r \in Requests :
        /\ mw[r].req.path = NoncePath /\ mw[r].status = 200
        /\ mw[r].nonce /= <<>> /\ mw[r].body /= mw[r].nonce
        /\ GetNonce(nonceStore, mw[r].nonce, now)

(* C8: for a window w > 0, ValidateTimestamp accepts a well-formed          *)
(* timestamp t exactly when now-w <= t <= now+w, both ends included, and   *)
(* rejects any other with 'timestamp is outside validity window'.          *)
C8_WindowSymmetry ==
    (tsq.via = "security" /\ tsq.window > 0 /\ ~ParseInt(tsq.ts).err) =>
        LET t == UnixMilli(ParseInt(tsq.ts).val)
            inside == tsq.at - tsq.window <= t /\ t <= tsq.at + tsq.window
        IN  /\ inside => tsq.err = ErrNil
            /\ ~inside => tsq.err = ErrTsWindow

\* a timestamp exactly at now-w was accepted
C8_Witness ==
    /\ tsq.via = "security" /\ tsq.window > 0 /\ ~ParseInt(tsq.ts).err
    /\ UnixMilli(ParseInt(tsq.ts).val) = tsq.at - tsq.window
    /\ tsq.err = ErrNil

(* C9: a window of 0 means the configured default window: the call made by *)
(* AuthService.ValidateTimestamp accepts a timestamp that differs from now *)
(* by a non-zero amount within the configured window.                      *)
C9_ZeroWindowIsDefault ==
    (tsq.via = "auth" /\ ~ParseInt(tsq.ts).err) =>
        LET t == UnixMilli(ParseInt(tsq.ts).val)
        IN  (t /= tsq.at /\ tsq.at - TimestampWindow <= t /\ t <= tsq.at + TimestampWindow)
                => tsq.err = ErrNil

(* C10: the signature is the HMAC of the canonical string whatever the     *)
(* iteration order of the map; ValidateSignature succeeds exactly when the *)
(* provided signature is that HMAC under the server's secret; after one    *)
(* parameter value or the secret changes, the old signature fails.         *)
C10_SignatureCanonical ==
    /\ sig.after = "signed" =>
          sig.provided = calculateSignature(sig.params, sig.signer)
    /\ sig.after \in {"validated", "value-changed", "secret-changed"} =>
          /\ sig.err \in {ErrNil, ErrSignature}
          /\ sig.err = ErrNil <=>
                \A o \in RangeOrders(sig.params) :
                    sig.provided = GenerateSignature(sig.params, o, sig.secret)
          /\ sig.err = ErrNil <=>
                sig.provided = calculateSignature(sig.params, sig.secret)
    /\ sig.after \in {"value-changed", "secret-changed"} => sig.err = ErrSignature

\* a signature over a map with several signed keys and a "sign" entry validated,
\* then failed after one value changed
C10_Witness ==
    /\ sig.after = "value-changed"
    /\ sig.err = ErrSignature
    /\ Cardinality(SignedKeys(sig.params)) >= 2
    /\ StrSign \in DOMAIN sig.params

(* C1: with ValidateNonce calls made one after the other, no nonce         *)
(* validates successfully more than once; the first ValidateNonce of an    *)
(* issued, unexpired nonce succeeds when the store answers; and every call *)
(* after a success fails, with 'invalid or expired nonce' when the store   *)
(* answers the existence check.                                            *)
C1_NonceSingleUse ==
    /\ \A n \in NoncePool : issuedAt[n].oks <= 1
    /\ (vn.index = 1 /\ vn.live /\ vn.ioGet = "ok" /\ vn.ioDel = "ok") => vn.err = ErrNil
    /\ (vn.err /= "none" /\ vn.oksBefore > 0) =>
          /\ vn.err /= ErrNil
          /\ vn.ioGet = "ok" => vn.err = ErrNonce

\* a second validation of an unexpired nonce was refused after the first succeeded
C1_Witness ==
    /\ vn.index = 2 /\ vn.oksBefore = 1 /\ vn.live
    /\ vn.err = ErrNonce

(* C11: ValidateToken on an issued token under its own type, made while    *)
(* the token is unexpired and not blacklisted (and the blacklist lookup    *)
(* answers), succeeds and returns exactly the userID, email and role given *)
(* to GenerateTokenPair, with that token type; access and refresh alike.   *)
C11_TokenRoundTrip ==
    \A i \in tokens :
        (tk.token = i.token /\ tk.tokenType = i.tokenType
            /\ tk.live /\ ~tk.listed /\ tk.io = "ok") =>
                /\ tk.err = TokNil
                /\ tk.claims.userID = i.userID
                /\ tk.claims.email = i.email
                /\ tk.claims.role = i.role
                /\ tk.claims.tokenType = i.tokenType

\* the refresh token of the admin's pair validated as a refresh token
C11_Witness ==
    /\ tk.err = TokNil /\ tk.tokenType = RefreshToken
    /\ tk.claims.role = "admin" /\ tk.claims.userID = 2
    /\ \E i \in tokens : i.token = tk.token

(* C12: ValidateToken on an issued token under the other type (an access   *)
(* token as refresh, a refresh token as access) returns 'token type        *)
(* mismatch'.                                                              *)
C12_TypeMismatch ==
    \A i \in tokens :
        (tk.token = i.token /\ tk.tokenType \in {AccessToken, RefreshToken}
            /\ tk.tokenType /= i.tokenType) => tk.err = ErrTypeMismatch

(* C13: in every state, an issued, unexpired token whose id is in the      *)
(* blacklist is rejected by ValidateToken under its own type: with 'token  *)
(* has been revoked' when the blacklist lookup answers, and never accepted.*)
C13_BlacklistedRejected ==
    /\ \A i \in tokens :
          (blacklist[i.token.claims.tokenID].present /\ now < i.token.claims.exp) =>
              /\ ValidateToken(i.token, i.tokenType, blacklist, "ok", now).err = ErrRevoked
              /\ ValidateToken(i.token, i.tokenType, blacklist, "error", now).err /= TokNil
    /\ \A i \in tokens :
          (tk.token = i.token /\ tk.tokenType = i.tokenType /\ tk.live /\ tk.listed) =>
              /\ tk.err /= TokNil
              /\ tk.io = "ok" => tk.err = ErrRevoked

\* an unexpired access token was refused as revoked
C13_Witness ==
    /\ tk.err = ErrRevoked /\ tk.live /\ tk.tokenType = AccessToken
    /\ blacklist[tk.token.claims.tokenID].present

(* C14 as stated: every RefreshTokens call on a refresh token that was     *)
(* rotated before fails with the revoked error and issues no pair.         *)
C14_ReplayAlwaysRevoked ==
    (rt.pc = "done" /\ rt.rotatedBefore /\ rt.io = "ok") =>
        /\ rt.err = Wrap("invalid refresh token", ErrRevoked)
        /\ rt.pair = NoPair

(* C14, amended: every RefreshTokens call on a refresh token that was      *)
(* rotated before fails and issues no pair; the error is the revoked error *)
(* while the token is unexpired and the blacklist lookup answers, and the  *)
(* expired error once the token has expired.                               *)
C14_RotationNonReplay ==
    /\ rt.rotatedBefore => rt.pc = "done"
    /\ (rt.pc = "done" /\ rt.rotatedBefore) =>
          /\ rt.err /= TokNil
          /\ rt.pair = NoPair
          /\ (rt.live /\ rt.io = "ok") =>
                rt.err = Wrap("invalid refresh token", ErrRevoked)
          /\ ~rt.live =>
                rt.err = Wrap("invalid refresh token",
                              Wrap("failed to parse token", ErrTokenExpired))

\* a second rotation of an unexpired refresh token was refused as revoked
C14_Witness ==
    /\ rt.pc = "done" /\ rt.rotatedBefore /\ rt.live
    /\ rt.err = Wrap("invalid refresh token", ErrRevoked)

(* C15: a token that ValidateToken once rejected as expired or as revoked  *)
(* is never accepted afterwards, neither by ValidateToken nor inside       *)
(* RefreshTokens, whatever was issued, rotated or revoked meanwhile and    *)
(* however far time and the blacklist entries' expiry have advanced.       *)
C15_TerminalAbsorbing ==
    /\ tk.rejectedBefore => tk.err /= TokNil
    /\ rt.rejectedBefore => (rt.pc = "done" /\ rt.err /= TokNil /\ rt.pair = NoPair)

\* a rotated refresh token, rejected before, is validated again after its
\* blacklist entry has expired, and is refused as expired
C15_Witness ==
    /\ tk.rejectedBefore /\ tk.token \in tokHist.rotated
    /\ ~blacklist[tk.token.claims.tokenID].present
    /\ tk.err = Wrap("failed to parse token", ErrTokenExpired)

----------------------------------------------------------------------------
(* C16: AuthMiddleware passes a request on if and only if its Authorization *)
(* header is "Bearer <token>" and ValidateToken(token, access) succeeds;    *)
(* every other request (no header, another scheme, a malformed header, a    *)
(* refresh token, an expired or a blacklisted token, a failed lookup) is    *)
(* aborted with 401 and its handler never runs; a request passed on has     *)
(* exactly the token's userID, email, role and tokenID in its context.      *)
C16_State ==
    \A r \in Requests :
        LET c == mw[r]
        IN  /\ (c.handler /\ c.req.path \in IdentityPaths) =>
                  /\ c.authErr = TokNil
                  /\ c.status /= 401
                  /\ DOMAIN c.keys = {"userID", "email", "role", "tokenID"}
            /\ c.status = 401 => ~c.handler /\ c.pc = "aborted"

C16_Step ==
    \A r \in Requests :
        (mw[r].pc = "next" /\ mw[r].req.path \in IdentityPaths /\ mw'[r] /= mw[r]) =>
            LET q == mw[r].req
                h == q.header["Authorization"]
                n == Len(StrBearer)
                bearerForm == /\ Len(h) > n
                              /\ SubSeq(h, 1, n) = StrBearer
                              /\ h[n + 1] = Space
                token == TokenString(SubSeq(h, n + 2, Len(h)), q.bearer)
                v == ValidateToken(token, AccessToken, blacklist, "ok", now)
                lookupFailed == mw'[r].authErr = ErrBlacklistCheck
                admitted == mw'[r].pc = "authNext"
            IN  /\ admitted <=> (bearerForm /\ v.err = TokNil /\ ~lookupFailed)
                /\ ~admitted => /\ mw'[r].pc = "aborted"
                                /\ mw'[r].status = 401
                                /\ mw'[r].keys = NoKeys
                                /\ ~mw'[r].handler
                /\ admitted =>
                      /\ mw'[r].status = 0
                      /\ now < token.claims.exp
                      /\ ~IsTokenBlacklisted(blacklist, token.claims.tokenID, now)
                      /\ \E i \in tokens :
                            /\ i.token = token
                            /\ i.tokenType = AccessToken
                            /\ mw'[r].keys = [userID |-> i.userID, email |-> i.email,
                                              role |-> i.role,
                                              tokenID |-> token.claims.tokenID]

C16_AuthAdmission == []C16_State /\ [][C16_Step]_vars

C16_Witness ==
    \E r \in Requests :
        /\ mw[r].req.path = UserPath
        /\ mw[r].req.header["Authorization"] = AuthBearer
        /\ mw[r].handler
        /\ mw[r].keys.role = "user"

----------------------------------------------------------------------------
(* C17: RoleMiddleware(required) lets the handler run only when the role in  *)
(* the request context is the required string itself; another role aborts   *)
(* with 403, no role with 401; the handler of an admin route is reached     *)
(* only by a request whose access token validated and carries role "admin". *)
C17_RoleGate ==
    \A r \in Requests :
        LET c == mw[r]
            hasRole == "role" \in DOMAIN c.keys
        IN  /\ c.required /= "" =>
                  /\ (c.pc = "roleNext" \/ c.handler) <=> (hasRole /\ c.keys.role = c.required)
                  /\ ~hasRole => c.pc = "aborted" /\ c.status = 401 /\ ~c.handler
                  /\ (hasRole /\ c.keys.role /= c.required) =>
                        c.pc = "aborted" /\ c.status = 403 /\ ~c.handler
            /\ (c.req.path = AdminPath /\ (c.handler \/ c.pc = "roleNext")) =>
                  /\ c.required = "admin"
                  /\ c.authErr = TokNil
                  /\ c.keys.role = "admin"
                  /\ \E i \in tokens : /\ i.token = c.req.bearer
                                       /\ i.tokenType = AccessToken
                                       /\ i.role = "admin"

C17_Witness ==
    \E r \in Requests :
        /\ mw[r].req.path = AdminPath
        /\ mw[r].required = "admin"
        /\ mw[r].keys.role = "user"
        /\ mw[r].status = 403

----------------------------------------------------------------------------
(* C18: on a route that requires identity AuthMiddleware acts only after    *)
(* SecurityMiddleware has accepted timestamp, nonce and signature, and the  *)
(* handler only after AuthMiddleware has accepted the token; a request with *)
(* an invalid signature ends with 400 and never reaches AuthMiddleware,     *)
(* whatever token it carries; a request ending with 401 has passed the      *)
(* signature check and its nonce is gone from the store.                    *)
C18_LayerOrder ==
    \A r \in Requests :
        LET c == mw[r]
            authActed == \/ c.error \in {ErrAuthRequired, ErrAuthFormat, ErrAccessToken}
                         \/ c.authErr /= <<"none">>
        IN  c.req.path \in IdentityPaths =>
              /\ authActed => /\ c.tsErr = ErrNil
                              /\ c.nonceErr = ErrNil
                              /\ c.sigErr = ErrNil
                              /\ c.next
              /\ c.handler => c.authErr = TokNil /\ c.sigErr = ErrNil
              /\ c.sigErr = ErrSignature =>
                    /\ c.pc = "aborted" /\ c.status = 400
                    /\ ~authActed /\ ~c.handler
              /\ c.status = 401 =>
                    /\ authActed
                    /\ c.sigErr = ErrNil
                    /\ ~GetNonce(nonceStore, c.nonce, now)
                    /\ ~c.handler

C18_Witness ==
    \E r \in Requests :
        /\ mw[r].req.path \in IdentityPaths
        /\ mw[r].sigErr = ErrSignature
        /\ mw[r].status = 400
        /\ ValidateToken(mw[r].req.bearer, AccessToken, blacklist, "ok", now).err = TokNil

----------------------------------------------------------------------------
(* C19: the map whose signature is checked holds, for every name, the value *)
(* of the last source that supplies it in the order query, form body, JSON  *)
(* string fields; and when the X-Timestamp or X-Nonce header is present the *)
(* entry timestamp or nonce holds the header's value, whatever the query,   *)
(* the form or the JSON body supplied under that name.                      *)
C19_HeaderPrecedence ==
    \A r \in Requests :
        LET c == mw[r]
            q == c.req
            params == MwParams(r)
            body == q.method /= "GET"
            json == body /\ q.contentType = "application/json"
            expected(k) ==
                IF k = StrTimestamp /\ q.header["X-Timestamp"] /= <<>>
                THEN q.header["X-Timestamp"]
                ELSE IF k = StrNonce /\ q.header["X-Nonce"] /= <<>>
                THEN q.header["X-Nonce"]
                ELSE IF json /\ k \in DOMAIN q.json THEN q.json[k]
                ELSE IF body /\ k \in DOMAIN q.form THEN q.form[k]
                ELSE q.query[k]
        IN  c.sigErr /= "none" => \A k \in DOMAIN params : params[k] = expected(k)

----------------------------------------------------------------------------
(* C20: a request during which the nonce store failed inside ValidateNonce, *)
(* or the blacklist store failed inside ValidateToken, ends with a status   *)
(* of the 5xx class, never with the 400 or 401 of a security rejection.     *)
C20_StoreFailureIs5xx ==
    \A r \in Requests :
        LET c == mw[r]
        IN  (\/ c.nonceErr \in {ErrNonceCheck, ErrNonceInvalidate}
             \/ c.authErr = ErrBlacklistCheck) =>
                c.status >= 500

----------------------------------------------------------------------------
(* C21: a successful RefreshTokens writes the presented refresh token's id  *)
(* to the blacklist with the time to live (expiry - now), so the entry is   *)
(* present at every instant from the rotation on at which the token is      *)
(* still unexpired, and it does not disappear before the token's expiry.    *)
C21_State ==
    \A t \in tokHist.rotated :
        LET id == t.claims.tokenID
        IN  /\ now < t.claims.exp => IsTokenBlacklisted(blacklist, id, now)
            /\ blacklist[id].present =>
                  (blacklist[id].expireAt = NoExpiry \/ blacklist[id].expireAt >= t.claims.exp)

C21_Step ==
    (rt.pc = "blacklist" /\ rt'.pc = "done" /\ rt'.err = TokNil) =>
        LET id == rt.claims.tokenID
            ttl == rt.claims.exp - now
        IN  /\ blacklist'[id].present
            /\ ttl > 0 => blacklist'[id].expireAt - now = ttl
            /\ ttl <= 0 => blacklist'[id].expireAt = NoExpiry

C21_BlacklistTtl == []C21_State /\ [][C21_Step]_vars

\* a rotated refresh token in the last time unit of its lifetime, its entry
\* still in the blacklist and due to expire with the token
C21_Witness ==
    \E t \in tokHist.rotated :
        /\ now = t.claims.exp - 1
        /\ blacklist[t.claims.tokenID].present
        /\ blacklist[t.claims.tokenID].expireAt = t.claims.exp

----------------------------------------------------------------------------
(* C22: a successful RefreshTokens(r) returns an access and a refresh token *)
(* with the userID, email and role of r, whose ids differ from each other,  *)
(* from r's id and from the id of every token issued before; the returned   *)
(* tokens are not the presented one, and each validates under its own type. *)
C22_Step ==
    (rt.pc = "blacklist" /\ rt'.pc = "done" /\ rt'.err = TokNil) =>
        LET r == rt.token
            a == rt'.pair.AccessToken
            f == rt'.pair.RefreshToken
            before == {i.token.claims.tokenID : i \in tokens}
        IN  /\ \A n \in {a, f} : /\ n.claims.userID = r.claims.userID
                                 /\ n.claims.email = r.claims.email
                                 /\ n.claims.role = r.claims.role
            /\ a.claims.tokenType = AccessToken /\ f.claims.tokenType = RefreshToken
            /\ a.claims.tokenID /= f.claims.tokenID
            /\ r.claims.tokenID \in before
            /\ {a.claims.tokenID, f.claims.tokenID} \cap before = {}
            /\ a /= r /\ f /= r
            /\ ValidateToken(a, AccessToken, blacklist', "ok", now').err = TokNil
            /\ ValidateToken(f, RefreshToken, blacklist', "ok", now').err = TokNil
            /\ {a, f} \subseteq {i.token : i \in tokens'}

C22_RotationPair == [][C22_Step]_vars

\* the admin's refresh token was rotated and a new pair returned
C22_Witness ==
    /\ rt.pc = "done" /\ rt.err = TokNil
    /\ rt.pair /= NoPair
    /\ rt.pair.RefreshToken.claims.role = "admin"
    /\ rt.pair.RefreshToken /= rt.token

----------------------------------------------------------------------------
(* C23: NonceRedisService.GetNonce returns true for a stored, unconsumed    *)
(* nonce and deletes it; it returns false with no error for a nonce that    *)
(* is not in the store (never stored, expired or consumed); and two calls   *)
(* on the same nonce running at the same time do not both return true.      *)
C23_GetNonce ==
    /\ \A g \in Callers :
          (gn[g].pc = "done" /\ gn[g].err = ErrNil) =>
              /\ gn[g].ok <=> gn[g].exists
              /\ gn[g].exists => ~GetNonce(nonceStore, gn[g].nonce, now)
    /\ \A g \in Callers, h \in Callers :
          (g /= h /\ gn[g].pc = "done" /\ gn[h].pc = "done" /\ gn[g].nonce = gn[h].nonce) =>
              ~(gn[g].ok /\ gn[h].ok)

----------------------------------------------------------------------------
(* C24: GenerateNonce stores the nonce for the configured validity          *)
(* duration: until then an unconsumed nonce is in the store, due to expire  *)
(* when the duration has elapsed; from then on it is gone, and every        *)
(* ValidateNonce on it fails, with 'invalid or expired nonce' when the      *)
(* store answers the existence check.                                       *)
C24_NonceExpiry ==
    /\ \A n \in NoncePool :
          issuedAt[n].at /= NeverIssued =>
              LET due == issuedAt[n].at + NonceValidityTime
              IN  /\ (issuedAt[n].oks = 0 /\ now < due) =>
                        /\ nonceStore[n].present
                        /\ nonceStore[n].expireAt = due
                  /\ now >= due =>
                        /\ ~GetNonce(nonceStore, n, now)
                        /\ \A ioDel \in IoOutcomes :
                              ValidateNonce(nonceStore, n, "ok", ioDel, now).err = ErrNonce
    /\ (vn.err /= "none" /\ issuedAt[vn.nonce].at /= NeverIssued /\ ~vn.live) =>
          /\ vn.err /= ErrNil
          /\ vn.ioGet = "ok" => vn.err = ErrNonce

\* a nonce that was issued and never consumed is validated after its
\* validity duration has elapsed, and is refused
C24_Witness ==
    /\ vn.err = ErrNonce /\ ~vn.live /\ vn.oksBefore = 0
    /\ issuedAt[vn.nonce].at /= NeverIssued
    /\ now >= issuedAt[vn.nonce].at + NonceValidityTime

----------------------------------------------------------------------------
(* C25: for every request SecurityMiddleware admits, the timestamp that     *)
(* passed ValidateTimestamp and the nonce that ValidateNonce consumed are   *)
(* the values under 'timestamp' and 'nonce' in the parameter map whose      *)
(* signature was verified, whatever mix of query string, headers, form and  *)
(* JSON body supplied them.                                                 *)
C25_SignedAreChecked ==
    \A r \in Requests :
        (mw[r].next /\ mw[r].req.path /= NoncePath) =>
            LET params == MwParams(r)
            IN  /\ mw[r].tsErr = ErrNil /\ mw[r].nonceErr = ErrNil /\ mw[r].sigErr = ErrNil
                /\ Lookup(params, StrTimestamp) = mw[r].timestamp
                /\ Lookup(params, StrNonce) = mw[r].nonce

----------------------------------------------------------------------------
(* C26: when two RefreshTokens calls on the same valid refresh token run at *)
(* the same time, their blacklist lookups and blacklist writes interleaved  *)
(* in any order, at most one of them succeeds and at most one new pair is   *)
(* issued for that token.                                                   *)
C26_ConcurrentRotation ==
    \A g \in Callers, h \in Callers :
        (g /= h /\ rot[g].token = rot[h].token /\ rot[g].token /= NoToken) =>
            ~(/\ rot[g].pc = "done" /\ rot[g].err = TokNil
              /\ rot[h].pc = "done" /\ rot[h].err = TokNil)

----------------------------------------------------------------------------
(* C27: two parameter maps that differ after 'sign' is dropped never give   *)
(* the same canonical string, values containing '&' or '=' included, so a   *)
(* signature that validated for one map fails for every other map under     *)
(* the same secret.                                                         *)
C27_CanonicalInjective ==
    sig.after = "params-changed" => sig.err = ErrSignature

----------------------------------------------------------------------------
(* C28: RefreshTokens changes no blacklist entry but the one of the         *)
(* presented refresh token's id, which a successful call adds; every other  *)
(* token issued before, the access token of the rotated token's own pair    *)
(* included, validates after the call exactly as it did before.             *)
C28_Step ==
    /\ (rt.pc /= "blacklist" /\ rt'.pc \in {"blacklist", "done"} /\ rt' /= rt) =>
          blacklist' = blacklist /\ tokens' = tokens
    /\ (rt.pc = "blacklist" /\ rt'.pc = "done") =>
          LET id == rt.claims.tokenID
          IN  /\ \A k \in DOMAIN blacklist \ {id} : blacklist'[k] = blacklist[k]
              /\ rt'.err = TokNil =>
                    /\ ~blacklist[id].present
                    /\ blacklist'[id].present
              /\ tokens \subseteq tokens'
              /\ \A i \in tokens :
                    i.token /= rt.token =>
                        \A io \in IoOutcomes :
                            ValidateToken(i.token, i.tokenType, blacklist', io, now') =
                                ValidateToken(i.token, i.tokenType, blacklist, io, now)

C28_RotationFrame == [][C28_Step]_vars

\* a rotation succeeded and the access token issued together with the
\* rotated refresh token still validates
C28_Witness ==
    /\ rt.pc = "done" /\ rt.err = TokNil
    /\ \E i \in tokens, j \in tokens :
          /\ i.token = rt.token
          /\ j.tokenType = AccessToken /\ j.at = i.at /\ j.userID = i.userID
          /\ j.token /= rt.pair.AccessToken
          /\ ValidateToken(j.token, AccessToken, blacklist, "ok", now).err = TokNil

----------------------------------------------------------------------------
(* C30: when ValidateToken rejects the presented refresh token, for any     *)
(* reason, RefreshTokens leaves the blacklist as it was and issues no       *)
(* pair; when the blacklist write fails it issues no pair; a pair is        *)
(* returned only once the presented token's id is in the blacklist.         *)
C30_State ==
    /\ rt.pair /= NoPair =>
          /\ rt.pc = "done" /\ rt.err = TokNil
          /\ rt.token \in tokHist.rotated
    /\ (rt.pc = "done" /\ rt.err /= TokNil) => rt.pair = NoPair

C30_Step ==
    /\ (rt.pc /= "blacklist" /\ rt'.pc = "done" /\ rt' /= rt) =>
          /\ rt'.err /= TokNil
          /\ rt'.pair = NoPair
          /\ blacklist' = blacklist
          /\ tokens' = tokens
    /\ (rt.pc = "blacklist" /\ rt'.pc = "done" /\ rt'.err /= TokNil) =>
          /\ rt'.err = ErrBlacklistWrite
          /\ rt'.pair = NoPair
          /\ tokens' = tokens
    /\ (rt.pair = NoPair /\ rt'.pair /= NoPair) =>
          /\ rt.pc = "blacklist"
          /\ blacklist'[rt.claims.tokenID].present
          /\ {rt'.pair.AccessToken, rt'.pair.RefreshToken} \cap IssuedTokens = {}

C30_FailureAtomicity == []C30_State /\ [][C30_Step]_vars

\* a RefreshTokens call whose blacklist write failed returned no pair
C30_Witness ==
    /\ rt.pc = "done" /\ rt.err = ErrBlacklistWrite
    /\ rt.pair = NoPair
    /\ ~blacklist[rt.token.claims.tokenID].present

----------------------------------------------------------------------------
(* C29: a request that passed the timestamp check and consumed a stored     *)
(* nonce, and whose signature is then found invalid, ends with 400 and its  *)
(* nonce stays out of the store; a later request presenting that nonce,     *)
(* on a route that checks nonces, correctly signed or not, never gets past  *)
(* the nonce check and is refused with 'invalid or expired nonce' when the  *)
(* store answers.                                                           *)
C29_NonceSpentOnBadSignature ==
    \A r \in Requests :
        /\ mw[r].sigErr = ErrSignature =>
              /\ mw[r].pc = "aborted" /\ mw[r].status = 400
              /\ mw[r].tsErr = ErrNil /\ mw[r].nonceErr = ErrNil
              /\ ~GetNonce(nonceStore, mw[r].nonce, now)
              /\ ValidateNonce(nonceStore, mw[r].nonce, "ok", "ok", now).err = ErrNonce
        /\ mw[r].burnt =>
              /\ ~mw[r].next
              /\ mw[r].pc \notin {"invalidateNonce", "signature"}
              /\ mw[r].nonceErr \in {"none", ErrNonce, ErrNonceCheck}
              /\ mw[r].sigErr = "none"
              /\ mw[r].pc = "aborted" => mw[r].status = 400
              /\ (mw[r].pc = "aborted" /\ mw[r].tsErr = ErrNil) =>
                    mw[r].nonceErr \in {ErrNonce, ErrNonceCheck}

\* a correctly signed request presented a nonce that a request with an
\* invalid signature had consumed, and was refused at the nonce check
C29_Witness ==
    \E r \in Requests :
        /\ mw[r].burnt /\ mw[r].nonceErr = ErrNonce /\ mw[r].status = 400
        /\ \E o \in RangeOrders(MwParams(r)) :
              ValidateSignature(MwParams(r), o, mw[r].signature, SignatureSecret) = ErrNil

====
